---- MODULE Spec2Model ----
(***************************************************************************)
(* The Butterfly Effect: a Dash application that integrates the Lorenz     *)
(* system for two parameter sets and builds three animated comparison      *)
(* figures (time series, phase planes, 3-D portrait).                      *)
(*                                                                         *)
(* Real numbers are modelled in fixed point: every value and every time    *)
(* is an integer count of 1/SCALE units, so 2.5 is 5 when SCALE = 2.       *)
(* Python sequences are 0-based; the sequences here are 1-based, so the    *)
(* source's solution[0] is solution[1] here.                               *)
(***************************************************************************)
EXTENDS Integers, Sequences, FiniteSets, TLC

VARIABLES entry,            \* which entry point this behaviour exercises
          pc,               \* position inside that entry point
          ode_args,         \* arguments of the last lorenz_ode call
          ode_result,       \* what that call returned
          grid,             \* the time grid [t0, tf, dt]
          inputs,           \* the twelve input values of the two paths
          timepoints,       \* np.arange(t0, tf, dt)
          solution_1,       \* <<x, y, z>> sample rows of the first path
          solution_2,       \* <<x, y, z>> sample rows of the second path
          points_per_frame, \* the stride handed to the plot functions
          fig1, fig2, fig3, \* the three figures
          calls,            \* log of the direct calls made, in order
          req,              \* per session: the locals of its update_plots call
          served,           \* the responses update_plots has returned
          page              \* the browser page: input values, figures, clicks

vars == <<entry, pc, ode_args, ode_result, grid, inputs, timepoints,
          solution_1, solution_2, points_per_frame, fig1, fig2, fig3,
          calls, req, served, page>>

(***************************************************************************)
(* Bounds of the model.                                                    *)
(***************************************************************************)
SCALE == 10
MaxN == 8
MaxStride == 3
MaxSpan == 7
MaxDt == 3

Half == SCALE \div 2
None == <<>>

(***************************************************************************)
(* Arithmetic and array helpers.                                           *)
(***************************************************************************)
Min2(a, b) == IF a <= b THEN a ELSE b
Max2(a, b) == IF a >= b THEN a ELSE b

\* ceil(a / b) for b > 0
CeilDiv(a, b) == -((-a) \div b)

\* int(v): the integer part of v, rounding toward zero, as a fixed-point number
Trunc(v) == IF v >= 0 THEN (v \div SCALE) * SCALE ELSE -(((-v) \div SCALE) * SCALE)

\* arr.astype(int)
astype_float(arr) == arr

astype_int(arr) == [i \in 1..Len(arr) |-> Trunc(arr[i])]

\* np.arange(start, stop, step) for step # 0: ceil((stop - start) / step)
\* values start, start + step, ..., none when the quotient is not positive
\* (step = 0 raises, see solve_lorenz_ode_call)
np_arange_floor(start, stop, step) ==
    LET n == IF stop > start THEN (stop - start) \div step ELSE 0
    IN  [i \in 1..n |-> start + (i - 1) * step]

np_arange_inclusive(start, stop, step) ==
    LET n == IF step > 0
             THEN (IF stop >= start THEN (stop - start) \div step + 1 ELSE 0)
             ELSE (IF start >= stop THEN (start - stop) \div (-step) + 1 ELSE 0)
    IN  [i \in 1..n |-> start + (i - 1) * step]

np_arange(start, stop, step) ==
    LET n == IF step > 0
             THEN (IF stop > start THEN CeilDiv(stop - start, step) ELSE 0)
             ELSE (IF start > stop THEN CeilDiv(start - stop, -step) ELSE 0)
    IN  [i \in 1..n |-> start + (i - 1) * step]

\* range(start, stop, step) over plain integers, step # 0 (step = 0 raises,
\* see plot_call)
py_range(start, stop, step) ==
    LET n == IF step > 0
             THEN (IF stop > start THEN CeilDiv(stop - start, step) ELSE 0)
             ELSE (IF start > stop THEN CeilDiv(start - stop, -step) ELSE 0)
    IN  [i \in 1..n |-> start + (i - 1) * step]

\* seq[:n] for n >= 0: Python clamps the slice to the length of seq
Slice(seq, n) == SubSeq(seq, 1, Min2(n, Len(seq)))

\* arr.min() and arr.max() of a one-dimensional array
RECURSIVE np_min(_)
np_min(arr) ==
    IF Len(arr) = 1 THEN arr[1] ELSE Min2(arr[1], np_min(Tail(arr)))

RECURSIVE np_max(_)
np_max(arr) ==
    IF Len(arr) = 1 THEN arr[1] ELSE Max2(arr[1], np_max(Tail(arr)))

\* solution.min() and solution.max() of the 3 x N array np.array((x, y, z))
array_min(solution) ==
    Min2(np_min(solution[1]), Min2(np_min(solution[2]), np_min(solution[3])))

array_max(solution) ==
    Max2(np_max(solution[1]), Max2(np_max(solution[2]), np_max(solution[3])))

(***************************************************************************)
(* lorenz_ode(t, state, sigma, rho, beta): the derivative triple.          *)
(* state, sigma, rho, beta are in 1/SCALE units; each product of two such  *)
(* numbers is in 1/SCALE^2 units, so the single term y is lifted to that   *)
(* unit with a factor SCALE.  The result is exact, in 1/SCALE^2 units.     *)
(***************************************************************************)
lorenz_ode_sign(t, state, sigma, rho, beta) ==
    LET x == state[1]
        y == state[2]
        z == state[3]
        dx_dt == sigma * (y - x)
        dy_dt == x * (rho - z) + SCALE * y
        dz_dt == x * y - beta * z
    IN  <<dx_dt, dy_dt, dz_dt>>

lorenz_ode(t, state, sigma, rho, beta) ==
    LET x == state[1]
        y == state[2]
        z == state[3]
        dx_dt == sigma * (y - x)
        dy_dt == x * (rho - z) - SCALE * y
        dz_dt == x * y - beta * z
    IN  <<dx_dt, dy_dt, dz_dt>>

(***************************************************************************)
(* solve_ivp(lorenz_ode, [t0, tf], y0, args=(sigma, rho, beta),            *)
(* t_eval=timepoints).y: scipy's integrator is a library outside the       *)
(* repository.  It is a function of its arguments alone and returns one    *)
(* row per coordinate and one column per entry of t_eval, the first column *)
(* being y0.  The columns are computed here to first order, from the       *)
(* derivative lorenz_ode gives at (t0, y0).                                *)
(***************************************************************************)
solve_ivp_warm_start(t_span, y0, sigma, rho, beta, t_eval) ==
    LET start == IF calls = <<>> THEN y0 ELSE calls[Len(calls)].args.initial_state
        d == lorenz_ode(t_span[1], start, sigma, rho, beta)
    IN  [c \in 1..3 |->
            [i \in 1..Len(t_eval) |->
                start[c] + (d[c] * (t_eval[i] - t_span[1])) \div (SCALE * SCALE)]]

solve_ivp(t_span, y0, sigma, rho, beta, t_eval) ==
    LET d == lorenz_ode(t_span[1], y0, sigma, rho, beta)
    IN  [c \in 1..3 |->
            [i \in 1..Len(t_eval) |->
                y0[c] + (d[c] * (t_eval[i] - t_span[1])) \div (SCALE * SCALE)]]

(***************************************************************************)
(* solve_lorenz_ode(sigma, rho, beta, initial_state, t0, tf, dt)           *)
(***************************************************************************)
solve_lorenz_ode(sigma, rho, beta, initial_state, t0, tf, dt) ==
    LET tp == np_arange(t0, tf, dt)
        solution == solve_ivp(<<t0, tf>>, initial_state, sigma, rho, beta, tp)
        x == solution[1]
        y == solution[2]
        z == solution[3]
    IN  <<x, y, z>>

(***************************************************************************)
(* What a call does for any arguments: it returns a value or raises.       *)
(* solve_lorenz_ode validates nothing itself.  np.arange raises when the   *)
(* step is 0; over an empty t_eval scipy's result has y = [], and the      *)
(* unpacking x, y, z = solution.y raises ValueError.  Every other grid,    *)
(* a descending one (tf < t0, dt < 0) included, is integrated.             *)
(***************************************************************************)
Returned(value) == [status |-> "returned", value |-> value]
Raised(error) == [status |-> "raised", value |-> error]

solve_lorenz_ode_call(sigma, rho, beta, initial_state, t0, tf, dt) ==
    IF dt = 0
    THEN Raised("np.arange: step is zero")
    ELSE IF Len(np_arange(t0, tf, dt)) = 0
         THEN Raised("ValueError: not enough values to unpack")
         ELSE Returned(solve_lorenz_ode(sigma, rho, beta, initial_state, t0, tf, dt))

(***************************************************************************)
(* Program constants of the plot functions.                                *)
(***************************************************************************)
time_tick_spacing == 5
ordinate_tick_spacing == 6
ordinate_stop_margin == 1
value_padding == 2
xyz_tick_spacing == 5
portrait_tick_spacing == 7
frame_start == 1

(***************************************************************************)
(* Traces.  Scatter is a base trace of a 2-D figure, FrameScatter a trace  *)
(* of an animation frame (no name, no legend group), Scatter3d a 3-D one.  *)
(***************************************************************************)
Scatter_first_panel(x, y, color, name, legendgroup, col) ==
    [x |-> x, y |-> y, color |-> color, name |-> name,
     legendgroup |-> legendgroup, col |-> 1]

Scatter(x, y, color, name, legendgroup, col) ==
    [x |-> x, y |-> y, color |-> color, name |-> name,
     legendgroup |-> legendgroup, col |-> col]

FrameScatter_swapped(x, y, color) == [x |-> y, y |-> x, color |-> color]

FrameScatter(x, y, color) == [x |-> x, y |-> y, color |-> color]

Scatter3d(x, y, z, color) == [x |-> x, y |-> y, z |-> z, color |-> color]

(***************************************************************************)
(* The frame loop shared by the three plot functions:                      *)
(*   for n_frame in range(1, len(...), points_per_frame)                   *)
(* and the slice [:n_frame+1] every trace of a frame is cut to.            *)
(***************************************************************************)
frame_indices_from_zero(n, stride) == py_range(0, n, stride)

frame_indices_every_sample(n, stride) == py_range(frame_start, n, 1)

frame_indices(n, stride) == py_range(frame_start, n, stride)

frame_slice(seq, n_frame) == Slice(seq, n_frame + 1)

(***************************************************************************)
(* plot_time_versus_xyz: the shared y-axis of the three panels.            *)
(***************************************************************************)
ordinate_min_x_only(sol_1, sol_2) ==
    Min2(np_min(sol_1[1]), np_min(sol_2[1]))

ordinate_min(sol_1, sol_2) ==
    Min2(array_min(sol_1), array_min(sol_2))

ordinate_max(sol_1, sol_2) ==
    Max2(array_max(sol_1), array_max(sol_2))

ordinate_ticks_no_margin(lo, hi) ==
    astype_int(np_arange(lo, hi, ordinate_tick_spacing * SCALE))

ordinate_ticks(lo, hi) ==
    astype_int(np_arange(lo, hi + ordinate_stop_margin * SCALE,
                         ordinate_tick_spacing * SCALE))

time_layout(t_ticks, o_ticks, o_min, o_max) ==
    [xaxis  |-> [tickvals |-> t_ticks],
     yaxis  |-> [tickvals |-> o_ticks, range |-> <<o_min, o_max>>],
     xaxis2 |-> [tickvals |-> t_ticks],
     yaxis2 |-> [tickvals |-> o_ticks, range |-> <<o_min, o_max>>],
     xaxis3 |-> [tickvals |-> t_ticks],
     yaxis3 |-> [tickvals |-> o_ticks, range |-> <<o_min, o_max>>]]

plot_time_versus_xyz(sol_1, sol_2, tp, color_1, color_2, stride) ==
    LET t_min == np_min(tp)
        t_max == np_max(tp)
        t_ticks == np_arange(t_min, t_max, time_tick_spacing * SCALE)
        o_min == ordinate_min(sol_1, sol_2)
        o_max == ordinate_max(sol_1, sol_2)
        o_ticks == ordinate_ticks(o_min, o_max)
        data == << Scatter(tp, sol_1[1], color_1, "time (t) vs x(t)", "group_1", 1),
                   Scatter(tp, sol_2[1], color_2, "time (t) vs x(t)", "group_2", 1),
                   Scatter(tp, sol_1[2], color_1, "time (t) vs y(t)", "group_1", 2),
                   Scatter(tp, sol_2[2], color_2, "time (t) vs y(t)", "group_2", 2),
                   Scatter(tp, sol_1[3], color_1, "time (t) vs z(t)", "group_1", 3),
                   Scatter(tp, sol_2[3], color_2, "time (t) vs z(t)", "group_2", 3) >>
        idx == frame_indices(Len(tp), stride)
        frame(n_frame) ==
            << FrameScatter(frame_slice(tp, n_frame), frame_slice(sol_1[1], n_frame), color_1),
               FrameScatter(frame_slice(tp, n_frame), frame_slice(sol_2[1], n_frame), color_2),
               FrameScatter(frame_slice(tp, n_frame), frame_slice(sol_1[2], n_frame), color_1),
               FrameScatter(frame_slice(tp, n_frame), frame_slice(sol_2[2], n_frame), color_2),
               FrameScatter(frame_slice(tp, n_frame), frame_slice(sol_1[3], n_frame), color_1),
               FrameScatter(frame_slice(tp, n_frame), frame_slice(sol_2[3], n_frame), color_2) >>
        frames == [k \in 1..Len(idx) |-> frame(idx[k])]
    IN  [data |-> data,
         layout |-> time_layout(t_ticks, o_ticks, o_min, o_max),
         frames |-> frames]

(***************************************************************************)
(* plot_xyz and plot_3d: one padded range and one tick list per            *)
(* coordinate c (1 = x, 2 = y, 3 = z), taken over both solutions.  The     *)
(* parameters sol_1, sol_2 are the source's solution_1, solution_2.        *)
(***************************************************************************)
value_min_unpadded(sol_1, sol_2, c) ==
    Min2(np_min(sol_1[c]), np_min(sol_2[c]))

value_min(sol_1, sol_2, c) ==
    Min2(np_min(sol_1[c]), np_min(sol_2[c])) - value_padding * SCALE

value_max_first_only(sol_1, sol_2, c) ==
    np_max(sol_1[c]) + value_padding * SCALE

value_max(sol_1, sol_2, c) ==
    Max2(np_max(sol_1[c]), np_max(sol_2[c])) + value_padding * SCALE

value_ticks(lo, hi, tick_spacing) ==
    astype_int(np_arange(lo, hi, tick_spacing * SCALE))

value_axis_padded_by_spacing(sol_1, sol_2, c, tick_spacing) ==
    LET lo == Min2(np_min(sol_1[c]), np_min(sol_2[c])) - tick_spacing * SCALE
        hi == Max2(np_max(sol_1[c]), np_max(sol_2[c])) + tick_spacing * SCALE
    IN  [tickvals |-> value_ticks(lo, hi, tick_spacing), range |-> <<lo, hi>>]

value_axis(sol_1, sol_2, c, tick_spacing) ==
    LET lo == value_min(sol_1, sol_2, c)
        hi == value_max(sol_1, sol_2, c)
    IN  [tickvals |-> value_ticks(lo, hi, tick_spacing), range |-> <<lo, hi>>]

plot_xyz(sol_1, sol_2, color_1, color_2, stride) ==
    LET x_axis == value_axis(sol_1, sol_2, 1, xyz_tick_spacing)
        y_axis == value_axis(sol_1, sol_2, 2, xyz_tick_spacing)
        z_axis == value_axis(sol_1, sol_2, 3, xyz_tick_spacing)
        data == << Scatter(sol_1[1], sol_1[2], color_1, "x(t) vs y(t)", "group_1", 1),
                   Scatter(sol_2[1], sol_2[2], color_2, "x(t) vs y(t)", "group_2", 1),
                   Scatter(sol_1[1], sol_1[3], color_1, "x(t) vs z(t)", "group_1", 2),
                   Scatter(sol_2[1], sol_2[3], color_2, "x(t) vs z(t)", "group_2", 2),
                   Scatter(sol_1[2], sol_1[3], color_1, "y(t) vs z(t)", "group_1", 3),
                   Scatter(sol_2[2], sol_2[3], color_2, "y(t) vs z(t)", "group_2", 3) >>
        idx == frame_indices(Len(sol_1[1]), stride)
        frame(n_frame) ==
            << FrameScatter(frame_slice(sol_1[1], n_frame), frame_slice(sol_1[2], n_frame), color_1),
               FrameScatter(frame_slice(sol_2[1], n_frame), frame_slice(sol_2[2], n_frame), color_2),
               FrameScatter(frame_slice(sol_1[1], n_frame), frame_slice(sol_1[3], n_frame), color_1),
               FrameScatter(frame_slice(sol_2[1], n_frame), frame_slice(sol_2[3], n_frame), color_2),
               FrameScatter(frame_slice(sol_1[2], n_frame), frame_slice(sol_1[3], n_frame), color_1),
               FrameScatter(frame_slice(sol_2[2], n_frame), frame_slice(sol_2[3], n_frame), color_2) >>
        frames == [k \in 1..Len(idx) |-> frame(idx[k])]
    IN  [data |-> data,
         layout |-> [xaxis |-> x_axis, yaxis |-> y_axis,
                     xaxis2 |-> x_axis, yaxis2 |-> z_axis,
                     xaxis3 |-> y_axis, yaxis3 |-> z_axis],
         frames |-> frames]

plot_3d(sol_1, sol_2, color_1, color_2, stride) ==
    LET x_axis == value_axis(sol_1, sol_2, 1, portrait_tick_spacing)
        y_axis == value_axis(sol_1, sol_2, 2, portrait_tick_spacing)
        z_axis == value_axis(sol_1, sol_2, 3, portrait_tick_spacing)
        data == << Scatter3d(sol_1[1], sol_1[2], sol_1[3], color_1),
                   Scatter3d(sol_2[1], sol_2[2], sol_2[3], color_2) >>
        idx == frame_indices(Len(sol_1[1]), stride)
        frame(n_frame) ==
            << Scatter3d(frame_slice(sol_1[1], n_frame), frame_slice(sol_1[2], n_frame),
                         frame_slice(sol_1[3], n_frame), color_1),
               Scatter3d(frame_slice(sol_2[1], n_frame), frame_slice(sol_2[2], n_frame),
                         frame_slice(sol_2[3], n_frame), color_2) >>
        frames == [k \in 1..Len(idx) |-> frame(idx[k])]
    IN  [data |-> data,
         layout |-> [xaxis |-> x_axis, yaxis |-> y_axis, zaxis |-> z_axis],
         frames |-> frames]

(***************************************************************************)
(* Input sets.  main() fixes one time grid and one set of defaults; the    *)
(* functions are exercised on these finite sets of arguments.              *)
(***************************************************************************)
blue_color == "#0000FF"
orange_color == "#FFA500"

OdeVals == {-(3 * SCALE + Half), 0, SCALE, 2 * SCALE + Half}
OdeTimes == {0, 7 * SCALE}

ParamSets ==
    { [sigma |-> 10 * SCALE, rho |-> 28 * SCALE, beta |-> (23 * SCALE) \div 10],
      [sigma |-> 7 * SCALE, rho |-> 27 * SCALE, beta |-> 2 * SCALE] }

InitialStates ==
    { <<0, SCALE, 0>>,
      <<SCALE, 0, SCALE>>,
      <<0, 0, 0>>,
      <<-(3 * SCALE + Half), 2 * SCALE + Half, -(SCALE + Half)>>,
      <<4 * SCALE + Half, 3 * SCALE, 2 * SCALE + Half>> }

MkInputs(s1, p1, s2, p2) ==
    [x0_1 |-> s1[1], y0_1 |-> s1[2], z0_1 |-> s1[3],
     x0_2 |-> s2[1], y0_2 |-> s2[2], z0_2 |-> s2[3],
     sigma_1 |-> p1.sigma, rho_1 |-> p1.rho, beta_1 |-> p1.beta,
     sigma_2 |-> p2.sigma, rho_2 |-> p2.rho, beta_2 |-> p2.beta]

InputSets ==
    { MkInputs(s1, p1, s2, p2) : s1 \in InitialStates, p1 \in ParamSets,
                                 s2 \in InitialStates, p2 \in ParamSets }

\* time grids with dt > 0 and tf > t0, multiples of dt and not
SolveGrids ==
    { [t0 |-> a, tf |-> a + k * Half, dt |-> d * Half] :
        a \in {0, Half}, k \in 1..MaxSpan, d \in 1..MaxDt }

\* time grids of 1..MaxN samples
PlotGrids ==
    { [t0 |-> a, tf |-> a + n * d, dt |-> d] :
        a \in {0, Half}, d \in {Half, 3 * SCALE + Half}, n \in 1..MaxN }

(***************************************************************************)
(* Entry point lorenz_ode: any number of calls, each with any arguments.   *)
(***************************************************************************)
Idle ==
    /\ ode_args = None /\ ode_result = None
    /\ grid = None /\ inputs = None /\ timepoints = None
    /\ solution_1 = None /\ solution_2 = None
    /\ points_per_frame = 0
    /\ fig1 = None /\ fig2 = None /\ fig3 = None
    /\ calls = <<>> /\ req = None /\ served = {} /\ page = None

InitOde ==
    /\ entry = "lorenz_ode"
    /\ pc = "idle"
    /\ Idle

CallLorenzOde ==
    /\ entry = "lorenz_ode"
    /\ \E t \in OdeTimes, x \in OdeVals, y \in OdeVals, z \in OdeVals, p \in ParamSets :
          /\ ode_args' = [t |-> t, state |-> <<x, y, z>>,
                          sigma |-> p.sigma, rho |-> p.rho, beta |-> p.beta]
          /\ ode_result' = lorenz_ode(t, <<x, y, z>>, p.sigma, p.rho, p.beta)
    /\ pc' = "returned"
    /\ UNCHANGED <<entry, grid, inputs, timepoints, solution_1, solution_2,
                   points_per_frame, fig1, fig2, fig3,
                   calls, req, served, page>>

NextOde == CallLorenzOde

SpecOde == InitOde /\ [][NextOde]_vars

(***************************************************************************)
(* Entry point solve_lorenz_ode: the two calls main() makes, on any grid   *)
(* of SolveGrids and any inputs.  timepoints records the sample times the  *)
(* call hands to the integrator as t_eval.                                 *)
(***************************************************************************)
InitSolve ==
    /\ entry = "solve_lorenz_ode"
    /\ pc = "solve_1"
    /\ ode_args = None /\ ode_result = None
    /\ grid \in SolveGrids
    /\ inputs \in InputSets
    /\ timepoints = None
    /\ solution_1 = None /\ solution_2 = None
    /\ points_per_frame = 0
    /\ fig1 = None /\ fig2 = None /\ fig3 = None
    /\ calls = <<>> /\ req = None /\ served = {} /\ page = None

Solve1 ==
    /\ entry = "solve_lorenz_ode"
    /\ pc = "solve_1"
    /\ timepoints' = np_arange(grid.t0, grid.tf, grid.dt)
    /\ solution_1' = solve_lorenz_ode(inputs.sigma_1, inputs.rho_1, inputs.beta_1,
                                      <<inputs.x0_1, inputs.y0_1, inputs.z0_1>>,
                                      grid.t0, grid.tf, grid.dt)
    /\ pc' = "solve_2"
    /\ UNCHANGED <<entry, ode_args, ode_result, grid, inputs, solution_2,
                   points_per_frame, fig1, fig2, fig3,
                   calls, req, served, page>>

Solve2 ==
    /\ entry = "solve_lorenz_ode"
    /\ pc = "solve_2"
    /\ timepoints' = np_arange(grid.t0, grid.tf, grid.dt)
    /\ solution_2' = solve_lorenz_ode(inputs.sigma_2, inputs.rho_2, inputs.beta_2,
                                      <<inputs.x0_2, inputs.y0_2, inputs.z0_2>>,
                                      grid.t0, grid.tf, grid.dt)
    /\ pc' = "solved"
    /\ UNCHANGED <<entry, ode_args, ode_result, grid, inputs, solution_1,
                   points_per_frame, fig1, fig2, fig3,
                   calls, req, served, page>>

NextSolve == Solve1 \/ Solve2

SpecSolve == InitSolve /\ [][NextSolve]_vars

(***************************************************************************)
(* Entry point plots: the three plot calls of main(), in main()'s order,   *)
(* on two solutions over a common grid and with any stride of              *)
(* 1..MaxStride.                                                           *)
(***************************************************************************)
InitPlot ==
    /\ entry = "plot"
    /\ pc = "fig1"
    /\ ode_args = None /\ ode_result = None
    /\ grid \in PlotGrids
    /\ inputs \in InputSets
    /\ timepoints = np_arange(grid.t0, grid.tf, grid.dt)
    /\ solution_1 = solve_lorenz_ode(inputs.sigma_1, inputs.rho_1, inputs.beta_1,
                                     <<inputs.x0_1, inputs.y0_1, inputs.z0_1>>,
                                     grid.t0, grid.tf, grid.dt)
    /\ solution_2 = solve_lorenz_ode(inputs.sigma_2, inputs.rho_2, inputs.beta_2,
                                     <<inputs.x0_2, inputs.y0_2, inputs.z0_2>>,
                                     grid.t0, grid.tf, grid.dt)
    /\ points_per_frame \in 1..MaxStride
    /\ fig1 = None /\ fig2 = None /\ fig3 = None
    /\ calls = <<>> /\ req = None /\ served = {} /\ page = None

PlotTimeVersusXYZ ==
    /\ entry = "plot"
    /\ pc = "fig1"
    /\ fig1' = plot_time_versus_xyz(solution_1, solution_2, timepoints,
                                    blue_color, orange_color, points_per_frame)
    /\ pc' = "fig2"
    /\ UNCHANGED <<entry, ode_args, ode_result, grid, inputs, timepoints,
                   solution_1, solution_2, points_per_frame, fig2, fig3,
                   calls, req, served, page>>

PlotXYZ ==
    /\ entry = "plot"
    /\ pc = "fig2"
    /\ fig2' = plot_xyz(solution_1, solution_2, blue_color, orange_color, points_per_frame)
    /\ pc' = "fig3"
    /\ UNCHANGED <<entry, ode_args, ode_result, grid, inputs, timepoints,
                   solution_1, solution_2, points_per_frame, fig1, fig3,
                   calls, req, served, page>>

Plot3D ==
    /\ entry = "plot"
    /\ pc = "fig3"
    /\ fig3' = plot_3d(solution_1, solution_2, blue_color, orange_color, points_per_frame)
    /\ pc' = "plotted"
    /\ UNCHANGED <<entry, ode_args, ode_result, grid, inputs, timepoints,
                   solution_1, solution_2, points_per_frame, fig1, fig2,
                   calls, req, served, page>>

NextPlot == PlotTimeVersusXYZ \/ PlotXYZ \/ Plot3D

SpecPlot == InitPlot /\ [][NextPlot]_vars

(***************************************************************************)
(* Entry point direct calls of solve_lorenz_ode: up to MaxCalls calls, one *)
(* after the other, each with any time grid of AnyGrids (valid or not) and *)
(* any initial state of CallStates, under main()'s default parameters.     *)
(* calls logs each call's arguments and what came of it.                   *)
(***************************************************************************)
MaxCalls == 3

default_params == [sigma |-> 10 * SCALE, rho |-> 28 * SCALE, beta |-> (23 * SCALE) \div 10]

CallStates == { <<0, SCALE, 0>>, <<SCALE, 0, SCALE>> }

AnyGrids ==
    { [t0 |-> 0, tf |-> tf, dt |-> dt] :
        tf \in {-SCALE, 0, SCALE}, dt \in {-Half, 0, 3} }

InitCalls ==
    /\ entry = "calls"
    /\ pc = "idle"
    /\ Idle

CallSolveLorenzOde ==
    /\ entry = "calls"
    /\ Len(calls) < MaxCalls
    /\ \E g \in AnyGrids, s \in CallStates :
          calls' = Append(calls,
                     [args |-> [sigma |-> default_params.sigma,
                                rho |-> default_params.rho,
                                beta |-> default_params.beta,
                                initial_state |-> s,
                                t0 |-> g.t0, tf |-> g.tf, dt |-> g.dt],
                      outcome |-> solve_lorenz_ode_call(
                                      default_params.sigma, default_params.rho,
                                      default_params.beta, s, g.t0, g.tf, g.dt)])
    /\ pc' = "called"
    /\ UNCHANGED <<entry, ode_args, ode_result, grid, inputs, timepoints,
                   solution_1, solution_2, points_per_frame, fig1, fig2, fig3,
                   req, served, page>>

NextCalls == CallSolveLorenzOde

SpecCalls == InitCalls /\ [][NextCalls]_vars

(***************************************************************************)
(* Entry point direct calls of the plot functions with any stride of       *)
(* AnyStrides, valid or not: one call of one of the three functions on two *)
(* solutions over a common grid.  The plot functions validate nothing      *)
(* themselves: range(1, N, 0) raises ValueError, after the base traces     *)
(* have been added, and range(1, N, stride) is empty for a negative        *)
(* stride.  fig1, fig2, fig3 hold the outcome of the call.                 *)
(***************************************************************************)
AnyStrides == (-MaxStride)..MaxStride

StrideInputs ==
    { MkInputs(<<0, SCALE, 0>>, default_params, s2, default_params) :
        s2 \in { <<SCALE, 0, SCALE>>, <<0, SCALE, 0>> } }

plot_time_versus_xyz_call(sol_1, sol_2, tp, color_1, color_2, stride) ==
    IF stride = 0
    THEN Raised("ValueError: range() arg 3 must not be zero")
    ELSE Returned(plot_time_versus_xyz(sol_1, sol_2, tp, color_1, color_2, stride))

plot_xyz_call(sol_1, sol_2, color_1, color_2, stride) ==
    IF stride = 0
    THEN Raised("ValueError: range() arg 3 must not be zero")
    ELSE Returned(plot_xyz(sol_1, sol_2, color_1, color_2, stride))

plot_3d_call(sol_1, sol_2, color_1, color_2, stride) ==
    IF stride = 0
    THEN Raised("ValueError: range() arg 3 must not be zero")
    ELSE Returned(plot_3d(sol_1, sol_2, color_1, color_2, stride))

InitStride ==
    /\ entry = "plot_calls"
    /\ pc = "idle"
    /\ ode_args = None /\ ode_result = None
    /\ grid \in PlotGrids
    /\ inputs \in StrideInputs
    /\ timepoints = np_arange(grid.t0, grid.tf, grid.dt)
    /\ solution_1 = solve_lorenz_ode(inputs.sigma_1, inputs.rho_1, inputs.beta_1,
                                     <<inputs.x0_1, inputs.y0_1, inputs.z0_1>>,
                                     grid.t0, grid.tf, grid.dt)
    /\ solution_2 = solve_lorenz_ode(inputs.sigma_2, inputs.rho_2, inputs.beta_2,
                                     <<inputs.x0_2, inputs.y0_2, inputs.z0_2>>,
                                     grid.t0, grid.tf, grid.dt)
    /\ points_per_frame \in AnyStrides
    /\ fig1 = None /\ fig2 = None /\ fig3 = None
    /\ calls = <<>> /\ req = None /\ served = {} /\ page = None

CallPlotTimeVersusXYZ ==
    /\ entry = "plot_calls"
    /\ pc = "idle"
    /\ fig1' = plot_time_versus_xyz_call(solution_1, solution_2, timepoints,
                                         blue_color, orange_color, points_per_frame)
    /\ pc' = "called_plot_time_versus_xyz"
    /\ UNCHANGED <<entry, ode_args, ode_result, grid, inputs, timepoints,
                   solution_1, solution_2, points_per_frame, fig2, fig3,
                   calls, req, served, page>>

CallPlotXYZ ==
    /\ entry = "plot_calls"
    /\ pc = "idle"
    /\ fig2' = plot_xyz_call(solution_1, solution_2, blue_color, orange_color,
                             points_per_frame)
    /\ pc' = "called_plot_xyz"
    /\ UNCHANGED <<entry, ode_args, ode_result, grid, inputs, timepoints,
                   solution_1, solution_2, points_per_frame, fig1, fig3,
                   calls, req, served, page>>

CallPlot3D ==
    /\ entry = "plot_calls"
    /\ pc = "idle"
    /\ fig3' = plot_3d_call(solution_1, solution_2, blue_color, orange_color,
                            points_per_frame)
    /\ pc' = "called_plot_3d"
    /\ UNCHANGED <<entry, ode_args, ode_result, grid, inputs, timepoints,
                   solution_1, solution_2, points_per_frame, fig1, fig2,
                   calls, req, served, page>>

NextStride == CallPlotTimeVersusXYZ \/ CallPlotXYZ \/ CallPlot3D

SpecStride == InitStride /\ [][NextStride]_vars

(***************************************************************************)
(* Entry point update_plots, one request, with every result scipy's        *)
(* integrator can hand back.  solve_lorenz_ode uses solution.y as it       *)
(* comes: it reads neither solution.success nor solution.status and tests  *)
(* no sample.  Which result the integrator reaches for given arguments is  *)
(* decided inside the library; IvpOutcomes(n) lists the results it can     *)
(* produce for n sample times:                                             *)
(*   success  - one column per sample time;                                *)
(*   failed   - the step size collapsed (status -1): only the first cols   *)
(*              columns, cols < n, are there; with cols = 0 solution.y is  *)
(*              empty and the unpacking on line 40 raises;                 *)
(*   overflow - arithmetic overflowed: the last column is not finite.      *)
(* A non-finite sample is the value float_inf.  update_plots calls the     *)
(* plot functions with their default strides.                              *)
(***************************************************************************)
float_inf == 1000000 * SCALE

default_points_per_frame_time == 40
default_points_per_frame_xyz == 15
default_points_per_frame_3d == 10

isfinite(v) == v # float_inf /\ v # -float_inf

IvpOutcomes(n) ==
    {[kind |-> "success", cols |-> n], [kind |-> "overflow", cols |-> n]}
        \cup {[kind |-> "failed", cols |-> k] : k \in 0..(n - 1)}

solve_ivp_outcome(o, t_span, y0, sigma, rho, beta, t_eval) ==
    LET full == solve_ivp(t_span, y0, sigma, rho, beta, t_eval)
    IN  [c \in 1..3 |->
            [i \in 1..o.cols |->
                IF o.kind = "overflow" /\ i = o.cols THEN float_inf ELSE full[c][i]]]

solve_lorenz_ode_outcome(o, sigma, rho, beta, initial_state, t0, tf, dt) ==
    LET tp == np_arange(t0, tf, dt)
        solution == solve_ivp_outcome(o, <<t0, tf>>, initial_state, sigma, rho, beta, tp)
    IN  IF o.cols = 0
        THEN Raised("ValueError: not enough values to unpack")
        ELSE Returned(<<solution[1], solution[2], solution[3]>>)

\* np.arange raises ValueError when a bound is not finite, which is what the
\* first tick computation of plot_time_versus_xyz (line 56) meets
AllFinite(solution) ==
    \A c \in 1..3 : \A i \in DOMAIN solution[c] : isfinite(solution[c][i])

InitUpdate ==
    /\ entry = "update_plots"
    /\ pc = "solve_1"
    /\ ode_args = None /\ ode_result = None
    /\ grid \in PlotGrids
    /\ inputs \in StrideInputs
    /\ timepoints = np_arange(grid.t0, grid.tf, grid.dt)
    /\ solution_1 = None /\ solution_2 = None
    /\ points_per_frame = 0
    /\ fig1 = None /\ fig2 = None /\ fig3 = None
    /\ calls = <<>> /\ req = None /\ served = {} /\ page = None

UpdSolve1 ==
    /\ entry = "update_plots"
    /\ pc = "solve_1"
    /\ \E o \in IvpOutcomes(Len(timepoints)) :
          LET r == solve_lorenz_ode_outcome(o, inputs.sigma_1, inputs.rho_1, inputs.beta_1,
                                            <<inputs.x0_1, inputs.y0_1, inputs.z0_1>>,
                                            grid.t0, grid.tf, grid.dt)
          IN  IF r.status = "raised"
              THEN pc' = "raised" /\ UNCHANGED solution_1
              ELSE pc' = "solve_2" /\ solution_1' = r.value
    /\ UNCHANGED <<entry, ode_args, ode_result, grid, inputs, timepoints,
                   solution_2, points_per_frame, fig1, fig2, fig3,
                   calls, req, served, page>>

UpdSolve2 ==
    /\ entry = "update_plots"
    /\ pc = "solve_2"
    /\ \E o \in IvpOutcomes(Len(timepoints)) :
          LET r == solve_lorenz_ode_outcome(o, inputs.sigma_2, inputs.rho_2, inputs.beta_2,
                                            <<inputs.x0_2, inputs.y0_2, inputs.z0_2>>,
                                            grid.t0, grid.tf, grid.dt)
          IN  IF r.status = "raised"
              THEN pc' = "raised" /\ UNCHANGED solution_2
              ELSE pc' = "fig1" /\ solution_2' = r.value
    /\ UNCHANGED <<entry, ode_args, ode_result, grid, inputs, timepoints,
                   solution_1, points_per_frame, fig1, fig2, fig3,
                   calls, req, served, page>>

UpdPlotTimeVersusXYZ ==
    /\ entry = "update_plots"
    /\ pc = "fig1"
    /\ IF AllFinite(solution_1) /\ AllFinite(solution_2)
       THEN /\ fig1' = plot_time_versus_xyz(solution_1, solution_2, timepoints,
                                            blue_color, orange_color,
                                            default_points_per_frame_time)
            /\ pc' = "fig2"
       ELSE pc' = "raised" /\ UNCHANGED fig1
    /\ UNCHANGED <<entry, ode_args, ode_result, grid, inputs, timepoints,
                   solution_1, solution_2, points_per_frame, fig2, fig3,
                   calls, req, served, page>>

UpdPlotXYZ ==
    /\ entry = "update_plots"
    /\ pc = "fig2"
    /\ fig2' = plot_xyz(solution_1, solution_2, blue_color, orange_color,
                        default_points_per_frame_xyz)
    /\ pc' = "fig3"
    /\ UNCHANGED <<entry, ode_args, ode_result, grid, inputs, timepoints,
                   solution_1, solution_2, points_per_frame, fig1, fig3,
                   calls, req, served, page>>

UpdPlot3D ==
    /\ entry = "update_plots"
    /\ pc = "fig3"
    /\ fig3' = plot_3d(solution_1, solution_2, blue_color, orange_color,
                       default_points_per_frame_3d)
    /\ pc' = "returned"
    /\ UNCHANGED <<entry, ode_args, ode_result, grid, inputs, timepoints,
                   solution_1, solution_2, points_per_frame, fig1, fig2,
                   calls, req, served, page>>

NextUpdate == UpdSolve1 \/ UpdSolve2 \/ UpdPlotTimeVersusXYZ \/ UpdPlotXYZ \/ UpdPlot3D

SpecUpdate == InitUpdate /\ [][NextUpdate]_vars

(***************************************************************************)
(* The application: main() fixes the time grid and timepoints once, and    *)
(* Dash runs update_plots for every click on Generate, the requests of     *)
(* different sessions interleaving statement by statement.  Everything     *)
(* update_plots assigns (solution_1, solution_2, fig1, fig2, fig3) is a    *)
(* local of the invocation: req[s] holds the locals of session s's         *)
(* running request.  t0, tf, dt and timepoints are closure values of       *)
(* main() that update_plots only reads.  served collects what the          *)
(* requests returned.  The grid stands for main()'s 0, 21, 0.01 at the     *)
(* model's scale.                                                          *)
(***************************************************************************)
Sessions == {1, 2}

AppGrid == [t0 |-> 0, tf |-> 2 * SCALE, dt |-> Half]

AppInputs ==
    { MkInputs(<<0, SCALE, 0>>, default_params, <<SCALE, 0, SCALE>>, default_params),
      MkInputs(<<0, 0, 0>>, default_params, <<SCALE, 0, SCALE>>, default_params),
      MkInputs(<<SCALE, 0, SCALE>>, default_params, <<0, SCALE, 0>>, default_params) }

NoRequest ==
    [pc |-> "idle", inputs |-> None, solution_1 |-> None, solution_2 |-> None,
     fig1 |-> None, fig2 |-> None, fig3 |-> None]

\* the solutions a plot call of session s's request is handed: the locals
\* of that request
other_session_solutions(s) ==
    LET o == CHOOSE t \in Sessions : t # s
    IN  IF req[o].pc \in {"fig1", "fig2", "fig3", "return"}
        THEN <<req[o].solution_1, req[o].solution_2>>
        ELSE <<req[s].solution_1, req[s].solution_2>>

request_solutions(s) == <<req[s].solution_1, req[s].solution_2>>

\* return fig1, fig2, fig3 of the invocation whose locals are r
response_stale_portrait(r) == <<r.fig1, r.fig2, fig3>>

response(r) == <<r.fig1, r.fig2, r.fig3>>

InitApp ==
    /\ entry = "app"
    /\ pc = "serving"
    /\ ode_args = None /\ ode_result = None
    /\ grid = AppGrid
    /\ inputs = None
    /\ timepoints = np_arange(AppGrid.t0, AppGrid.tf, AppGrid.dt)
    /\ solution_1 = None /\ solution_2 = None
    /\ points_per_frame = 0
    /\ fig1 = None /\ fig2 = None /\ fig3 = None
    /\ calls = <<>>
    /\ req = [s \in Sessions |-> NoRequest]
    /\ served = {} /\ page = None

AppUnchanged ==
    UNCHANGED <<entry, pc, ode_args, ode_result, grid, inputs, timepoints,
                solution_1, solution_2, points_per_frame, fig1, fig2, fig3,
                calls, page>>

\* a click on Generate in session s: update_plots starts with the twelve
\* values of the session's input fields
Generate(s) ==
    /\ entry = "app"
    /\ req[s].pc = "idle"
    /\ \E v \in AppInputs :
          req' = [req EXCEPT ![s] = [NoRequest EXCEPT !.pc = "solve_1", !.inputs = v]]
    /\ UNCHANGED served
    /\ AppUnchanged

AppSolve1(s) ==
    /\ entry \in {"app", "page"}
    /\ req[s].pc = "solve_1"
    /\ LET v == req[s].inputs
       IN  req' = [req EXCEPT ![s].solution_1 =
                        solve_lorenz_ode(v.sigma_1, v.rho_1, v.beta_1,
                                         <<v.x0_1, v.y0_1, v.z0_1>>,
                                         grid.t0, grid.tf, grid.dt),
                      ![s].pc = "solve_2"]
    /\ UNCHANGED served
    /\ AppUnchanged

AppSolve2(s) ==
    /\ entry \in {"app", "page"}
    /\ req[s].pc = "solve_2"
    /\ LET v == req[s].inputs
       IN  req' = [req EXCEPT ![s].solution_2 =
                        solve_lorenz_ode(v.sigma_2, v.rho_2, v.beta_2,
                                         <<v.x0_2, v.y0_2, v.z0_2>>,
                                         grid.t0, grid.tf, grid.dt),
                      ![s].pc = "fig1"]
    /\ UNCHANGED served
    /\ AppUnchanged

AppPlotTimeVersusXYZ(s) ==
    /\ entry \in {"app", "page"}
    /\ req[s].pc = "fig1"
    /\ LET sol == request_solutions(s)
       IN  req' = [req EXCEPT ![s].fig1 =
                        plot_time_versus_xyz(sol[1], sol[2], timepoints,
                                             blue_color, orange_color,
                                             default_points_per_frame_time),
                      ![s].pc = "fig2"]
    /\ UNCHANGED served
    /\ AppUnchanged

AppPlotXYZ(s) ==
    /\ entry \in {"app", "page"}
    /\ req[s].pc = "fig2"
    /\ LET sol == request_solutions(s)
       IN  req' = [req EXCEPT ![s].fig2 =
                        plot_xyz(sol[1], sol[2], blue_color, orange_color,
                                 default_points_per_frame_xyz),
                      ![s].pc = "fig3"]
    /\ UNCHANGED served
    /\ AppUnchanged

AppPlot3D(s) ==
    /\ entry \in {"app", "page"}
    /\ req[s].pc = "fig3"
    /\ LET sol == request_solutions(s)
       IN  req' = [req EXCEPT ![s].fig3 =
                        plot_3d(sol[1], sol[2], blue_color, orange_color,
                                default_points_per_frame_3d),
                      ![s].pc = "return"]
    /\ UNCHANGED served
    /\ AppUnchanged

\* return fig1, fig2, fig3: the response leaves and the locals are gone
AppReturn(s) ==
    /\ entry = "app"
    /\ req[s].pc = "return"
    /\ served' = served \cup
                    {[session |-> s, inputs |-> req[s].inputs,
                      figures |-> response(req[s])]}
    /\ req' = [req EXCEPT ![s] = NoRequest]
    /\ AppUnchanged

NextApp ==
    \E s \in Sessions :
        \/ Generate(s)
        \/ AppSolve1(s)
        \/ AppSolve2(s)
        \/ AppPlotTimeVersusXYZ(s)
        \/ AppPlotXYZ(s)
        \/ AppPlot3D(s)
        \/ AppReturn(s)

SpecApp == InitApp /\ [][NextApp]_vars

(***************************************************************************)
(* Entry point plots as the application calls them: main() and             *)
(* update_plots pass no points_per_frame, so each plot function runs with  *)
(* its default stride.  The grids have up to MaxLongN samples, enough for  *)
(* the largest default stride to give more than one frame.                 *)
(***************************************************************************)
MaxLongN == 45

LongGrids == { [t0 |-> 0, tf |-> n, dt |-> 1] : n \in 1..MaxLongN }

InitDefaults ==
    /\ entry = "default_strides"
    /\ pc = "fig1"
    /\ ode_args = None /\ ode_result = None
    /\ grid \in LongGrids
    /\ inputs \in StrideInputs
    /\ timepoints = np_arange(grid.t0, grid.tf, grid.dt)
    /\ solution_1 = solve_lorenz_ode(inputs.sigma_1, inputs.rho_1, inputs.beta_1,
                                     <<inputs.x0_1, inputs.y0_1, inputs.z0_1>>,
                                     grid.t0, grid.tf, grid.dt)
    /\ solution_2 = solve_lorenz_ode(inputs.sigma_2, inputs.rho_2, inputs.beta_2,
                                     <<inputs.x0_2, inputs.y0_2, inputs.z0_2>>,
                                     grid.t0, grid.tf, grid.dt)
    /\ points_per_frame = 0
    /\ fig1 = None /\ fig2 = None /\ fig3 = None
    /\ calls = <<>> /\ req = None /\ served = {} /\ page = None

DefPlotTimeVersusXYZ ==
    /\ entry = "default_strides"
    /\ pc = "fig1"
    /\ fig1' = plot_time_versus_xyz(solution_1, solution_2, timepoints,
                                    blue_color, orange_color,
                                    default_points_per_frame_time)
    /\ pc' = "fig2"
    /\ UNCHANGED <<entry, ode_args, ode_result, grid, inputs, timepoints,
                   solution_1, solution_2, points_per_frame, fig2, fig3,
                   calls, req, served, page>>

DefPlotXYZ ==
    /\ entry = "default_strides"
    /\ pc = "fig2"
    /\ fig2' = plot_xyz(solution_1, solution_2, blue_color, orange_color,
                        default_points_per_frame_xyz)
    /\ pc' = "fig3"
    /\ UNCHANGED <<entry, ode_args, ode_result, grid, inputs, timepoints,
                   solution_1, solution_2, points_per_frame, fig1, fig3,
                   calls, req, served, page>>

DefPlot3D ==
    /\ entry = "default_strides"
    /\ pc = "fig3"
    /\ fig3' = plot_3d(solution_1, solution_2, blue_color, orange_color,
                       default_points_per_frame_3d)
    /\ pc' = "plotted"
    /\ UNCHANGED <<entry, ode_args, ode_result, grid, inputs, timepoints,
                   solution_1, solution_2, points_per_frame, fig1, fig2,
                   calls, req, served, page>>

NextDefaults == DefPlotTimeVersusXYZ \/ DefPlotXYZ \/ DefPlot3D

SpecDefaults == InitDefaults /\ [][NextDefaults]_vars

(***************************************************************************)
(* reset_values(n_clicks, x0_1, ..., beta_2): the callback of the Reset    *)
(* button.  Dash hands it the button's n_clicks and the twelve field       *)
(* values in the order of the State list, and writes the twelve returned   *)
(* values to the fields in the order of the Output list; both lists name   *)
(* the fields in the order of InputIds.  The callback also runs once when  *)
(* the page loads, with n_clicks = 0.                                      *)
(***************************************************************************)
MaxClicks == 2

InputIds ==
    << "x0_1", "y0_1", "z0_1", "x0_2", "y0_2", "z0_2",
       "sigma_1", "rho_1", "beta_1", "sigma_2", "rho_2", "beta_2" >>

default_initial_state_1 == <<0, SCALE, 0>>
default_initial_state_2 == <<SCALE, 0, SCALE>>
default_params_2 == [sigma |-> 10 * SCALE, rho |-> 28 * SCALE, beta |-> (23 * SCALE) \div 10]

\* the field values as the positional arguments of a callback
StateArgs(values) == [i \in 1..Len(InputIds) |-> values[InputIds[i]]]

\* the returned tuple as written to the fields
OutputValues(result) ==
    [id \in {InputIds[i] : i \in 1..Len(InputIds)} |->
        result[CHOOSE i \in 1..Len(InputIds) : InputIds[i] = id]]

reset_values_paths_swapped(n_clicks, a) ==
    IF n_clicks > 0
    THEN << default_initial_state_2[1], default_initial_state_2[2], default_initial_state_2[3],
            default_initial_state_1[1], default_initial_state_1[2], default_initial_state_1[3],
            default_params.sigma, default_params.rho, default_params.beta,
            default_params_2.sigma, default_params_2.rho, default_params_2.beta >>
    ELSE a

reset_values_keep(n_clicks, a) == a

reset_values(n_clicks, a) ==
    IF n_clicks > 0
    THEN << default_initial_state_1[1], default_initial_state_1[2], default_initial_state_1[3],
            default_initial_state_2[1], default_initial_state_2[2], default_initial_state_2[3],
            default_params.sigma, default_params.rho, default_params.beta,
            default_params_2.sigma, default_params_2.rho, default_params_2.beta >>
    ELSE << a[1], a[2], a[3], a[4], a[5], a[6], a[7], a[8], a[9], a[10], a[11], a[12] >>

(***************************************************************************)
(* Entry point reset_values: one call with any n_clicks of 0..MaxClicks    *)
(* and any twelve field values, then one more click on what it returned.   *)
(* page holds the button's n_clicks and the field values the call is       *)
(* handed; inputs holds the values it returned.                            *)
(***************************************************************************)
InitReset ==
    /\ entry = "reset_values"
    /\ pc = "idle"
    /\ ode_args = None /\ ode_result = None
    /\ grid = None /\ inputs = None /\ timepoints = None
    /\ solution_1 = None /\ solution_2 = None
    /\ points_per_frame = 0
    /\ fig1 = None /\ fig2 = None /\ fig3 = None
    /\ calls = <<>> /\ req = None /\ served = {}
    /\ \E n \in 0..MaxClicks, v \in InputSets :
          page = [n_clicks |-> n, values |-> v]

CallResetValues ==
    /\ entry = "reset_values"
    /\ pc = "idle"
    /\ inputs' = OutputValues(reset_values(page.n_clicks, StateArgs(page.values)))
    /\ pc' = "returned"
    /\ UNCHANGED <<entry, ode_args, ode_result, grid, timepoints,
                   solution_1, solution_2, points_per_frame, fig1, fig2, fig3,
                   calls, req, served, page>>

\* the returned values are in the fields now; the button is clicked again
ClickResetAgain ==
    /\ entry = "reset_values"
    /\ pc = "returned"
    /\ page' = [n_clicks |-> page.n_clicks + 1, values |-> inputs]
    /\ inputs' = OutputValues(reset_values(page.n_clicks + 1, StateArgs(inputs)))
    /\ pc' = "returned_again"
    /\ UNCHANGED <<entry, ode_args, ode_result, grid, timepoints,
                   solution_1, solution_2, points_per_frame, fig1, fig2, fig3,
                   calls, req, served>>

NextReset == CallResetValues \/ ClickResetAgain

SpecReset == InitReset /\ [][NextReset]_vars

(***************************************************************************)
(* One browser page of the application.  main() solves both paths for the  *)
(* defaults and builds the start-up figures fig1, fig2, fig3, which the    *)
(* layout shows and the input fields start from the defaults.  The user    *)
(* edits the fields, clicks Reset (reset_values writes the fields) and     *)
(* clicks Generate (update_plots runs statement by statement on the field  *)
(* values of that moment and its three returned figures replace the shown  *)
(* ones together, as the three Outputs of one callback).  Dash also runs   *)
(* update_plots once when the page loads, with n_clicks = 0, which it      *)
(* never reads.  page.n_clicks is the Reset button's count.                *)
(***************************************************************************)
PageSession == 1

default_values ==
    MkInputs(default_initial_state_1, default_params, default_initial_state_2, default_params_2)

InitPage ==
    /\ entry = "page"
    /\ pc = "serving"
    /\ ode_args = None /\ ode_result = None
    /\ grid = AppGrid
    /\ inputs = default_values
    /\ timepoints = np_arange(AppGrid.t0, AppGrid.tf, AppGrid.dt)
    /\ solution_1 = solve_lorenz_ode(default_params.sigma, default_params.rho,
                                     default_params.beta, default_initial_state_1,
                                     AppGrid.t0, AppGrid.tf, AppGrid.dt)
    /\ solution_2 = solve_lorenz_ode(default_params_2.sigma, default_params_2.rho,
                                     default_params_2.beta, default_initial_state_2,
                                     AppGrid.t0, AppGrid.tf, AppGrid.dt)
    /\ points_per_frame = 0
    /\ fig1 = plot_time_versus_xyz(solution_1, solution_2, timepoints,
                                   blue_color, orange_color, default_points_per_frame_time)
    /\ fig2 = plot_xyz(solution_1, solution_2, blue_color, orange_color,
                       default_points_per_frame_xyz)
    /\ fig3 = plot_3d(solution_1, solution_2, blue_color, orange_color,
                      default_points_per_frame_3d)
    /\ calls = <<>>
    /\ req = [s \in Sessions |-> NoRequest]
    /\ served = {}
    /\ page = [values |-> default_values, figures |-> <<fig1, fig2, fig3>>, n_clicks |-> 0]

PageUnchanged ==
    UNCHANGED <<entry, pc, ode_args, ode_result, grid, inputs, timepoints,
                solution_1, solution_2, points_per_frame, fig1, fig2, fig3,
                calls, served>>

\* the user types other values into the input fields
EditValues ==
    /\ entry = "page"
    /\ \E v \in AppInputs : v # page.values /\ page' = [page EXCEPT !.values = v]
    /\ UNCHANGED req
    /\ PageUnchanged

ClickReset ==
    /\ entry = "page"
    /\ page.n_clicks < MaxClicks
    /\ page' = [page EXCEPT
                  !.n_clicks = page.n_clicks + 1,
                  !.values = OutputValues(reset_values(page.n_clicks + 1,
                                                       StateArgs(page.values)))]
    /\ UNCHANGED req
    /\ PageUnchanged

\* update_plots starts, on a click on Generate or at page load, with the
\* field values of this moment
PageGenerate ==
    /\ entry = "page"
    /\ req[PageSession].pc = "idle"
    /\ req' = [req EXCEPT ![PageSession] =
                  [NoRequest EXCEPT !.pc = "solve_1", !.inputs = page.values]]
    /\ UNCHANGED page
    /\ PageUnchanged

PageReturn ==
    /\ entry = "page"
    /\ req[PageSession].pc = "return"
    /\ page' = [page EXCEPT !.figures = response(req[PageSession])]
    /\ req' = [req EXCEPT ![PageSession] = NoRequest]
    /\ PageUnchanged

NextPage ==
    \/ EditValues
    \/ ClickReset
    \/ PageGenerate
    \/ AppSolve1(PageSession)
    \/ AppSolve2(PageSession)
    \/ AppPlotTimeVersusXYZ(PageSession)
    \/ AppPlotXYZ(PageSession)
    \/ AppPlot3D(PageSession)
    \/ PageReturn

SpecPage == InitPage /\ [][NextPage]_vars

(***************************************************************************)
(* The second variant of the program, src/scripts/main.py, translated from *)
(* its own text: its functions carry the prefix scripts_.  Next to each    *)
(* other run main() / update_plots / reset_values of src/main.py and of    *)
(* src/scripts/main.py on the same twelve input values, the same time grid *)
(* and the same Reset click count.  What the figures of the model leave    *)
(* out of a plotly figure (fonts, the Animate button) is kept per variant  *)
(* in a style record.                                                      *)
(***************************************************************************)
scripts_lorenz_ode(t, state, sigma, rho, beta) ==
    LET x == state[1]
        y == state[2]
        z == state[3]
        dx_dt == sigma * (y - x)
        dy_dt == x * (rho - z) - SCALE * y
        dz_dt == x * y - beta * z
    IN  <<dx_dt, dy_dt, dz_dt>>

\* the library's solve_ivp, called on scripts_lorenz_ode
scripts_solve_ivp(t_span, y0, sigma, rho, beta, t_eval) ==
    LET d == scripts_lorenz_ode(t_span[1], y0, sigma, rho, beta)
    IN  [c \in 1..3 |->
            [i \in 1..Len(t_eval) |->
                y0[c] + (d[c] * (t_eval[i] - t_span[1])) \div (SCALE * SCALE)]]

scripts_solve_lorenz_ode(sigma, rho, beta, initial_state, t0, tf, dt) ==
    LET tp == np_arange(t0, tf, dt)
        solution == scripts_solve_ivp(<<t0, tf>>, initial_state, sigma, rho, beta, tp)
    IN  <<solution[1], solution[2], solution[3]>>

scripts_frames2(n, stride, traces) ==
    LET idx == py_range(1, n, stride)
    IN  [k \in 1..Len(idx) |->
            [j \in 1..Len(traces) |->
                [x |-> Slice(traces[j][1], idx[k] + 1),
                 y |-> Slice(traces[j][2], idx[k] + 1),
                 color |-> traces[j][3]]]]

scripts_plot_time_versus_xyz(sol_1, sol_2, tp, color_1, color_2, stride) ==
    LET t_min == np_min(tp)
        t_max == np_max(tp)
        t_ticks == np_arange(t_min, t_max, 5 * SCALE)
        o_min == Min2(Min2(np_min(sol_1[1]), Min2(np_min(sol_1[2]), np_min(sol_1[3]))),
                      Min2(np_min(sol_2[1]), Min2(np_min(sol_2[2]), np_min(sol_2[3]))))
        o_max == Max2(Max2(np_max(sol_1[1]), Max2(np_max(sol_1[2]), np_max(sol_1[3]))),
                      Max2(np_max(sol_2[1]), Max2(np_max(sol_2[2]), np_max(sol_2[3]))))
        o_ticks == astype_int(np_arange(o_min, o_max + 1 * SCALE, 6 * SCALE))
        o_axis == [tickvals |-> o_ticks, range |-> <<o_min, o_max>>]
        t_axis == [tickvals |-> t_ticks]
    IN  [data |-> << Scatter(tp, sol_1[1], color_1, "time (t) vs x(t)", "group_1", 1),
                     Scatter(tp, sol_2[1], color_2, "time (t) vs x(t)", "group_2", 1),
                     Scatter(tp, sol_1[2], color_1, "time (t) vs y(t)", "group_1", 2),
                     Scatter(tp, sol_2[2], color_2, "time (t) vs y(t)", "group_2", 2),
                     Scatter(tp, sol_1[3], color_1, "time (t) vs z(t)", "group_1", 3),
                     Scatter(tp, sol_2[3], color_2, "time (t) vs z(t)", "group_2", 3) >>,
         layout |-> [xaxis |-> t_axis, yaxis |-> o_axis,
                     xaxis2 |-> t_axis, yaxis2 |-> o_axis,
                     xaxis3 |-> t_axis, yaxis3 |-> o_axis],
         frames |-> scripts_frames2(Len(tp), stride,
                        << <<tp, sol_1[1], color_1>>, <<tp, sol_2[1], color_2>>,
                           <<tp, sol_1[2], color_1>>, <<tp, sol_2[2], color_2>>,
                           <<tp, sol_1[3], color_1>>, <<tp, sol_2[3], color_2>> >>)]

\* x_value_min, x_value_max, x_value_ticks and the same for y and z
scripts_value_axis_unpadded(sol_1, sol_2, c, tick_spacing) ==
    LET lo == Min2(np_min(sol_1[c]), np_min(sol_2[c]))
        hi == Max2(np_max(sol_1[c]), np_max(sol_2[c]))
    IN  [tickvals |-> astype_int(np_arange(lo, hi, tick_spacing * SCALE)),
         range |-> <<lo, hi>>]

scripts_value_axis(sol_1, sol_2, c, tick_spacing) ==
    LET lo == Min2(np_min(sol_1[c]), np_min(sol_2[c])) - 2 * SCALE
        hi == Max2(np_max(sol_1[c]), np_max(sol_2[c])) + 2 * SCALE
    IN  [tickvals |-> astype_int(np_arange(lo, hi, tick_spacing * SCALE)),
         range |-> <<lo, hi>>]

scripts_plot_xyz(sol_1, sol_2, color_1, color_2, stride) ==
    LET x_axis == scripts_value_axis(sol_1, sol_2, 1, 5)
        y_axis == scripts_value_axis(sol_1, sol_2, 2, 5)
        z_axis == scripts_value_axis(sol_1, sol_2, 3, 5)
    IN  [data |-> << Scatter(sol_1[1], sol_1[2], color_1, "x(t) vs y(t)", "group_1", 1),
                     Scatter(sol_2[1], sol_2[2], color_2, "x(t) vs y(t)", "group_2", 1),
                     Scatter(sol_1[1], sol_1[3], color_1, "x(t) vs z(t)", "group_1", 2),
                     Scatter(sol_2[1], sol_2[3], color_2, "x(t) vs z(t)", "group_2", 2),
                     Scatter(sol_1[2], sol_1[3], color_1, "y(t) vs z(t)", "group_1", 3),
                     Scatter(sol_2[2], sol_2[3], color_2, "y(t) vs z(t)", "group_2", 3) >>,
         layout |-> [xaxis |-> x_axis, yaxis |-> y_axis,
                     xaxis2 |-> x_axis, yaxis2 |-> z_axis,
                     xaxis3 |-> y_axis, yaxis3 |-> z_axis],
         frames |-> scripts_frames2(Len(sol_1[1]), stride,
                        << <<sol_1[1], sol_1[2], color_1>>, <<sol_2[1], sol_2[2], color_2>>,
                           <<sol_1[1], sol_1[3], color_1>>, <<sol_2[1], sol_2[3], color_2>>,
                           <<sol_1[2], sol_1[3], color_1>>, <<sol_2[2], sol_2[3], color_2>> >>)]

scripts_plot_3d(sol_1, sol_2, color_1, color_2, stride) ==
    LET x_axis == scripts_value_axis(sol_1, sol_2, 1, 7)
        y_axis == scripts_value_axis(sol_1, sol_2, 2, 7)
        z_axis == scripts_value_axis(sol_1, sol_2, 3, 7)
        idx == py_range(1, Len(sol_1[1]), stride)
        cut(sol, n_frame, color) ==
            Scatter3d(Slice(sol[1], n_frame + 1), Slice(sol[2], n_frame + 1),
                      Slice(sol[3], n_frame + 1), color)
    IN  [data |-> << Scatter3d(sol_1[1], sol_1[2], sol_1[3], color_1),
                     Scatter3d(sol_2[1], sol_2[2], sol_2[3], color_2) >>,
         layout |-> [xaxis |-> x_axis, yaxis |-> y_axis, zaxis |-> z_axis],
         frames |-> [k \in 1..Len(idx) |->
                        << cut(sol_1, idx[k], color_1), cut(sol_2, idx[k], color_2) >>]]

\* points_per_frame=40, =15, =10 in the three signatures
scripts_points_per_frame == <<40, 15, 10>>

scripts_reset_values(n_clicks, a) ==
    IF n_clicks > 0
    THEN <<0, SCALE, 0, SCALE, 0, SCALE,
           10 * SCALE, 28 * SCALE, (23 * SCALE) \div 10,
           10 * SCALE, 28 * SCALE, (23 * SCALE) \div 10>>
    ELSE <<a[1], a[2], a[3], a[4], a[5], a[6], a[7], a[8], a[9], a[10], a[11], a[12]>>

\* font_size_plots = 15; title fonts and the label of the animation button
font_size_plots == 15

style ==
    [title_font_size |-> font_size_plots + 8, animate_label |-> "Click to ANIMATE!"]

scripts_style ==
    [title_font_size |-> font_size_plots, animate_label |-> "Animate"]

VariantInputs == AppInputs \cup StrideInputs

InitVariants ==
    /\ entry = "variants"
    /\ pc = "start"
    /\ ode_args = None /\ ode_result = None
    /\ grid \in LongGrids
    /\ inputs \in VariantInputs
    /\ timepoints = None
    /\ solution_1 = None /\ solution_2 = None
    /\ points_per_frame = 0
    /\ fig1 = None /\ fig2 = None /\ fig3 = None
    /\ calls = <<>> /\ req = None /\ served = {}
    /\ \E n \in 0..MaxClicks :
          page = [n_clicks |-> n, values |-> None, style |-> None, scripts |-> None]

\* src/main.py: the time grid of main() and update_plots on the inputs
MainUpdatePlots ==
    /\ entry = "variants"
    /\ pc = "start"
    /\ LET tp == np_arange(grid.t0, grid.tf, grid.dt)
           s1 == solve_lorenz_ode(inputs.sigma_1, inputs.rho_1, inputs.beta_1,
                                  <<inputs.x0_1, inputs.y0_1, inputs.z0_1>>,
                                  grid.t0, grid.tf, grid.dt)
           s2 == solve_lorenz_ode(inputs.sigma_2, inputs.rho_2, inputs.beta_2,
                                  <<inputs.x0_2, inputs.y0_2, inputs.z0_2>>,
                                  grid.t0, grid.tf, grid.dt)
       IN  /\ timepoints' = tp
           /\ solution_1' = s1
           /\ solution_2' = s2
           /\ fig1' = plot_time_versus_xyz(s1, s2, tp, blue_color, orange_color,
                                           default_points_per_frame_time)
           /\ fig2' = plot_xyz(s1, s2, blue_color, orange_color,
                               default_points_per_frame_xyz)
           /\ fig3' = plot_3d(s1, s2, blue_color, orange_color,
                              default_points_per_frame_3d)
    /\ page' = [page EXCEPT !.style = style]
    /\ pc' = "main_plotted"
    /\ UNCHANGED <<entry, ode_args, ode_result, grid, inputs, points_per_frame,
                   calls, req, served>>

\* src/main.py: reset_values on the click count and the inputs
MainResetValues ==
    /\ entry = "variants"
    /\ pc = "main_plotted"
    /\ page' = [page EXCEPT !.values = reset_values(page.n_clicks, StateArgs(inputs))]
    /\ pc' = "main_done"
    /\ UNCHANGED <<entry, ode_args, ode_result, grid, inputs, timepoints,
                   solution_1, solution_2, points_per_frame, fig1, fig2, fig3,
                   calls, req, served>>

\* src/scripts/main.py: the time grid of main() and update_plots
ScriptsUpdatePlots ==
    /\ entry = "variants"
    /\ pc = "main_done"
    /\ LET tp == np_arange(grid.t0, grid.tf, grid.dt)
           s1 == scripts_solve_lorenz_ode(inputs.sigma_1, inputs.rho_1, inputs.beta_1,
                                          <<inputs.x0_1, inputs.y0_1, inputs.z0_1>>,
                                          grid.t0, grid.tf, grid.dt)
           s2 == scripts_solve_lorenz_ode(inputs.sigma_2, inputs.rho_2, inputs.beta_2,
                                          <<inputs.x0_2, inputs.y0_2, inputs.z0_2>>,
                                          grid.t0, grid.tf, grid.dt)
       IN  page' = [page EXCEPT !.scripts =
                      [timepoints |-> tp,
                       style |-> scripts_style,
                       values |-> None,
                       fig1 |-> scripts_plot_time_versus_xyz(s1, s2, tp, blue_color,
                                    orange_color, scripts_points_per_frame[1]),
                       fig2 |-> scripts_plot_xyz(s1, s2, blue_color, orange_color,
                                    scripts_points_per_frame[2]),
                       fig3 |-> scripts_plot_3d(s1, s2, blue_color, orange_color,
                                    scripts_points_per_frame[3])]]
    /\ pc' = "scripts_plotted"
    /\ UNCHANGED <<entry, ode_args, ode_result, grid, inputs, timepoints,
                   solution_1, solution_2, points_per_frame, fig1, fig2, fig3,
                   calls, req, served>>

ScriptsResetValues ==
    /\ entry = "variants"
    /\ pc = "scripts_plotted"
    /\ page' = [page EXCEPT !.scripts.values =
                    scripts_reset_values(page.n_clicks, StateArgs(inputs))]
    /\ pc' = "both_done"
    /\ UNCHANGED <<entry, ode_args, ode_result, grid, inputs, timepoints,
                   solution_1, solution_2, points_per_frame, fig1, fig2, fig3,
                   calls, req, served>>

NextVariants ==
    MainUpdatePlots \/ MainResetValues \/ ScriptsUpdatePlots \/ ScriptsResetValues

SpecVariants == InitVariants /\ [][NextVariants]_vars

(***************************************************************************)
(* All entry points together.                                              *)
(***************************************************************************)
Init ==
    InitOde \/ InitSolve \/ InitPlot \/ InitCalls \/ InitStride \/ InitUpdate \/ InitApp
    \/ InitDefaults \/ InitReset \/ InitPage \/ InitVariants

Next ==
    \/ CallLorenzOde \/ Solve1 \/ Solve2 \/ PlotTimeVersusXYZ \/ PlotXYZ \/ Plot3D
    \/ NextCalls \/ NextStride \/ NextUpdate \/ NextApp \/ NextDefaults
    \/ NextReset \/ NextPage \/ NextVariants

Spec == Init /\ [][Next]_vars

(***************************************************************************)
(* Helpers of the properties: sets of values, stated without the folds     *)
(* the model computes with.                                                *)
(***************************************************************************)
Values(seq) == {seq[i] : i \in DOMAIN seq}
SetMin(S) == CHOOSE m \in S : \A v \in S : m <= v
SetMax(S) == CHOOSE m \in S : \A v \in S : m >= v
IsInteger(v) == v % SCALE = 0

(***************************************************************************)
(* C1: for every state (x, y, z) and every (sigma, rho, beta), lorenz_ode  *)
(* returns exactly [sigma*(y - x), x*(rho - z) - y, x*y - beta*z]: the     *)
(* result is that function of the state and the parameters, whatever t is  *)
(* and whatever calls were made before.                                    *)
(***************************************************************************)
C1_LorenzOdeDerivative ==
    pc = "returned" =>
        LET x == ode_args.state[1]
            y == ode_args.state[2]
            z == ode_args.state[3]
        IN  /\ ode_result[1] = ode_args.sigma * (y - x)
            /\ ode_result[2] = x * (ode_args.rho - z) - SCALE * y
            /\ ode_result[3] = x * y - ode_args.beta * z

C1_Witness ==
    /\ pc = "returned"
    /\ ode_args.t # 0
    /\ ode_args.state[1] < 0
    /\ ode_args.state[2] > 0
    /\ ode_result[2] # 0

(***************************************************************************)
(* C2 as stated: for dt > 0 and tf > t0, solve_lorenz_ode evaluates at     *)
(* exactly floor((tf - t0)/dt) sample times t0, t0 + dt, ..., also when    *)
(* tf - t0 is not a multiple of dt.                                        *)
(***************************************************************************)
SampleTimesFrom(t0, dt) ==
    \A i \in 1..Len(timepoints) : timepoints[i] = t0 + (i - 1) * dt

C2_Original ==
    (entry = "solve_lorenz_ode" /\ pc # "solve_1") =>
        /\ Len(timepoints) = (grid.tf - grid.t0) \div grid.dt
        /\ Len(solution_1[1]) = (grid.tf - grid.t0) \div grid.dt
        /\ SampleTimesFrom(grid.t0, grid.dt)

(***************************************************************************)
(* C2 amended: the number of sample times is ceil((tf - t0)/dt), the       *)
(* length np.arange gives: floor((tf - t0)/dt) when the quotient is whole  *)
(* and one more otherwise.  The sample times are t0, t0 + dt, ..., and     *)
(* both solutions have one sample per sample time.                         *)
(***************************************************************************)
C2_SampleCountIsCeil ==
    (entry = "solve_lorenz_ode" /\ pc # "solve_1") =>
        LET span == grid.tf - grid.t0
            n == Len(timepoints)
        IN  /\ (n - 1) * grid.dt < span
            /\ span <= n * grid.dt
            /\ n = (IF span % grid.dt = 0 THEN span \div grid.dt
                                          ELSE span \div grid.dt + 1)
            /\ \A c \in 1..3 : Len(solution_1[c]) = n
            /\ pc = "solved" => \A c \in 1..3 : Len(solution_2[c]) = n
            /\ SampleTimesFrom(grid.t0, grid.dt)

C2_Witness ==
    /\ entry = "solve_lorenz_ode"
    /\ pc = "solved"
    /\ (grid.tf - grid.t0) % grid.dt # 0
    /\ grid.tf - grid.t0 > grid.dt
    /\ Len(timepoints) = (grid.tf - grid.t0) \div grid.dt + 1

(***************************************************************************)
(* Helpers of the properties about the figures.                            *)
(***************************************************************************)
Built1 == entry = "plot" /\ pc \in {"fig2", "fig3", "plotted"}
Built2 == entry = "plot" /\ pc \in {"fig3", "plotted"}
Built3 == entry = "plot" /\ pc = "plotted"

\* the trajectory length N
NSamples == Len(solution_1[1])

\* every trace of a frame of a 2-D figure is cut to p samples
Reveals2(frame, p) ==
    \A j \in DOMAIN frame : Len(frame[j].x) = p /\ Len(frame[j].y) = p

\* every trace of a frame of the 3-D figure is cut to p samples
Reveals3(frame, p) ==
    \A j \in DOMAIN frame :
        Len(frame[j].x) = p /\ Len(frame[j].y) = p /\ Len(frame[j].z) = p

\* the number of samples the first trace of a frame reveals
Revealed(frame) == Len(frame[1].x)

(***************************************************************************)
(* C3 as stated: for N >= 1 and stride >= 1 the frame list of each plot    *)
(* function is not empty and its last frame reveals all N samples.         *)
(***************************************************************************)
C3_LastFrameRevealsAll ==
    /\ Built1 => /\ Len(fig1.frames) >= 1
                 /\ Reveals2(fig1.frames[Len(fig1.frames)], NSamples)
    /\ Built2 => /\ Len(fig2.frames) >= 1
                 /\ Reveals2(fig2.frames[Len(fig2.frames)], NSamples)
    /\ Built3 => /\ Len(fig3.frames) >= 1
                 /\ Reveals3(fig3.frames[Len(fig3.frames)], NSamples)

(***************************************************************************)
(* C4 as stated: frame k (k = 0, 1, ...) of a frame list built with stride *)
(* s over N samples reveals min(1 + k*s, N) samples; frame 0 reveals 1.    *)
(* Frame k of the claim is frames[k + 1] here.                             *)
(***************************************************************************)
C4_Original ==
    /\ Built1 => \A k \in DOMAIN fig1.frames :
                    Reveals2(fig1.frames[k], Min2(1 + (k - 1) * points_per_frame, NSamples))
    /\ Built2 => \A k \in DOMAIN fig2.frames :
                    Reveals2(fig2.frames[k], Min2(1 + (k - 1) * points_per_frame, NSamples))
    /\ Built3 => \A k \in DOMAIN fig3.frames :
                    Reveals3(fig3.frames[k], Min2(1 + (k - 1) * points_per_frame, NSamples))

(***************************************************************************)
(* C4 amended: every frame k (k = 0, 1, ...) of the list reveals exactly   *)
(* 2 + k*s samples in every trace, which is never more than N; frame 0     *)
(* reveals exactly 2 samples.                                              *)
(***************************************************************************)
C4_FrameRevealsTwoPlusKS ==
    /\ Built1 => \A k \in DOMAIN fig1.frames :
                    /\ Reveals2(fig1.frames[k], 2 + (k - 1) * points_per_frame)
                    /\ 2 + (k - 1) * points_per_frame <= NSamples
    /\ Built2 => \A k \in DOMAIN fig2.frames :
                    /\ Reveals2(fig2.frames[k], 2 + (k - 1) * points_per_frame)
                    /\ 2 + (k - 1) * points_per_frame <= NSamples
    /\ Built3 => \A k \in DOMAIN fig3.frames :
                    /\ Reveals3(fig3.frames[k], 2 + (k - 1) * points_per_frame)
                    /\ 2 + (k - 1) * points_per_frame <= NSamples

C4_Witness ==
    /\ Built3
    /\ points_per_frame >= 2
    /\ Len(fig1.frames) >= 3
    /\ Len(fig2.frames) >= 3
    /\ Len(fig3.frames) >= 3
    /\ Revealed(fig3.frames[3]) = 2 + 2 * points_per_frame
    /\ Revealed(fig3.frames[3]) < NSamples

(***************************************************************************)
(* C5 as stated: the revealed-prefix lengths of a frame list are strictly  *)
(* increasing and the list has exactly ceil((N - 1)/s) + 1 frames; for     *)
(* N = 1000 and s = 40 that is 26 frames, the last revealing 1000 samples. *)
(***************************************************************************)
StrictlyIncreasing(frames) ==
    \A k \in 1..(Len(frames) - 1) : Revealed(frames[k]) < Revealed(frames[k + 1])

C5_FrameCount ==
    /\ Built1 => /\ StrictlyIncreasing(fig1.frames)
                 /\ Len(fig1.frames) = CeilDiv(NSamples - 1, points_per_frame) + 1
    /\ Built2 => /\ StrictlyIncreasing(fig2.frames)
                 /\ Len(fig2.frames) = CeilDiv(NSamples - 1, points_per_frame) + 1
    /\ Built3 => /\ StrictlyIncreasing(fig3.frames)
                 /\ Len(fig3.frames) = CeilDiv(NSamples - 1, points_per_frame) + 1
    /\ Built1 => LET idx == frame_indices(1000, 40)
                 IN  Len(idx) = 26 /\ idx[Len(idx)] + 1 = 1000

(***************************************************************************)
(* Axes.  Panel col of a 2-D figure draws trace.x on XAxis(fig, col) and   *)
(* trace.y on YAxis(fig, col).                                             *)
(***************************************************************************)
XAxis(fig, col) ==
    CASE col = 1 -> fig.layout.xaxis
      [] col = 2 -> fig.layout.xaxis2
      [] col = 3 -> fig.layout.xaxis3

YAxis(fig, col) ==
    CASE col = 1 -> fig.layout.yaxis
      [] col = 2 -> fig.layout.yaxis2
      [] col = 3 -> fig.layout.yaxis3

Within(v, axis) == axis.range[1] <= v /\ v <= axis.range[2]
StrictlyWithin(v, axis) == axis.range[1] < v /\ v < axis.range[2]

\* every sample of coordinate c of both trajectories
Samples(c) == Values(solution_1[c]) \cup Values(solution_2[c])
AllSamples == Samples(1) \cup Samples(2) \cup Samples(3)

\* the value axes of the phase-plane figure and of the 3-D figure, each with
\* the coordinate drawn on it
PhaseAxes ==
    { <<fig2.layout.xaxis, 1>>, <<fig2.layout.yaxis, 2>>,
      <<fig2.layout.xaxis2, 1>>, <<fig2.layout.yaxis2, 3>>,
      <<fig2.layout.xaxis3, 2>>, <<fig2.layout.yaxis3, 3>> }

PortraitAxes ==
    { <<fig3.layout.xaxis, 1>>, <<fig3.layout.yaxis, 2>>, <<fig3.layout.zaxis, 3>> }

TimeValueAxes == {fig1.layout.yaxis, fig1.layout.yaxis2, fig1.layout.yaxis3}

(***************************************************************************)
(* C6: every axis range the three plot functions emit contains every value *)
(* of the series drawn on that axis, from both trajectories; in the        *)
(* phase-plane and 3-D figures, which pad the range, strictly inside.      *)
(***************************************************************************)
C6_RangesContainSamples ==
    /\ Built1 => \A j \in DOMAIN fig1.data :
                    \A v \in Values(fig1.data[j].y) :
                        Within(v, YAxis(fig1, fig1.data[j].col))
    /\ Built2 => \A j \in DOMAIN fig2.data :
                    /\ \A v \in Values(fig2.data[j].x) :
                          StrictlyWithin(v, XAxis(fig2, fig2.data[j].col))
                    /\ \A v \in Values(fig2.data[j].y) :
                          StrictlyWithin(v, YAxis(fig2, fig2.data[j].col))
    /\ Built3 => \A j \in DOMAIN fig3.data :
                    /\ \A v \in Values(fig3.data[j].x) : StrictlyWithin(v, fig3.layout.xaxis)
                    /\ \A v \in Values(fig3.data[j].y) : StrictlyWithin(v, fig3.layout.yaxis)
                    /\ \A v \in Values(fig3.data[j].z) : StrictlyWithin(v, fig3.layout.zaxis)

\* the smallest x of all lies on the second trajectory and the largest on the
\* first, so no single trajectory spans the range
C6_Witness ==
    /\ Built3
    /\ NSamples >= 3
    /\ SetMin(Samples(1)) < SetMin(Values(solution_1[1]))
    /\ SetMax(Samples(1)) > SetMax(Values(solution_2[1]))
    /\ SetMin(Samples(1)) = fig2.layout.xaxis.range[1] + value_padding * SCALE

(***************************************************************************)
(* C7: in plot_xyz and plot_3d the axis of coordinate c ranges from (the   *)
(* smallest c over all samples of both trajectories) - 2 to (the largest)  *)
(* + 2, and swapping the two trajectories leaves every range unchanged.    *)
(***************************************************************************)
JointRange(c) ==
    <<SetMin(Samples(c)) - 2 * SCALE, SetMax(Samples(c)) + 2 * SCALE>>

Ranges2(fig) ==
    <<fig.layout.xaxis.range, fig.layout.yaxis.range,
      fig.layout.xaxis2.range, fig.layout.yaxis2.range,
      fig.layout.xaxis3.range, fig.layout.yaxis3.range>>

Ranges3(fig) ==
    <<fig.layout.xaxis.range, fig.layout.yaxis.range, fig.layout.zaxis.range>>

C7_JointPaddedBounds ==
    /\ Built2 =>
          /\ \A a \in PhaseAxes : a[1].range = JointRange(a[2])
          /\ Ranges2(plot_xyz(solution_2, solution_1, blue_color, orange_color,
                              points_per_frame)) = Ranges2(fig2)
    /\ Built3 =>
          /\ \A a \in PortraitAxes : a[1].range = JointRange(a[2])
          /\ Ranges3(plot_3d(solution_2, solution_1, blue_color, orange_color,
                             points_per_frame)) = Ranges3(fig3)

\* the largest y lies on the second trajectory only, the smallest on the first
C7_Witness ==
    /\ Built3
    /\ SetMax(Values(solution_2[2])) > SetMax(Values(solution_1[2]))
    /\ SetMin(Values(solution_1[2])) < SetMin(Values(solution_2[2]))
    /\ fig3.layout.yaxis.range[2] = SetMax(Values(solution_2[2])) + 2 * SCALE

(***************************************************************************)
(* C8: the three panels of plot_time_versus_xyz carry the same y-axis      *)
(* range and the same y tick list, and the range is [global min, global    *)
(* max] over all three coordinates of both trajectories together.          *)
(***************************************************************************)
C8_SharedOrdinate ==
    Built1 =>
        /\ fig1.layout.yaxis.range = <<SetMin(AllSamples), SetMax(AllSamples)>>
        /\ fig1.layout.yaxis2 = fig1.layout.yaxis
        /\ fig1.layout.yaxis3 = fig1.layout.yaxis

\* the global minimum is not reached by x, the global maximum not by z
C8_Witness ==
    /\ Built1
    /\ NSamples >= 2
    /\ SetMin(AllSamples) < SetMin(Samples(1))
    /\ SetMax(AllSamples) > SetMax(Samples(3))
    /\ Len(fig1.layout.yaxis3.tickvals) >= 2

FirstTickIsTruncatedMin(axis) ==
    /\ Len(axis.tickvals) >= 1
    /\ IsInteger(axis.tickvals[1])
    /\ IF axis.range[1] >= 0
         THEN axis.tickvals[1] <= axis.range[1] /\ axis.range[1] < axis.tickvals[1] + SCALE
         ELSE axis.tickvals[1] >= axis.range[1] /\ axis.range[1] > axis.tickvals[1] - SCALE

EvenlySpaced(ticks, spacing) ==
    \A i \in 1..(Len(ticks) - 1) : ticks[i + 1] - ticks[i] = spacing * SCALE

C10_TicksEvenlySpaced ==
    /\ Built1 => /\ \A a \in TimeValueAxes : EvenlySpaced(a.tickvals, 6)
                 /\ EvenlySpaced(fig1.layout.xaxis.tickvals, 5)
    /\ Built2 => \A a \in PhaseAxes : EvenlySpaced(a[1].tickvals, 5)
    /\ Built3 => \A a \in PortraitAxes : EvenlySpaced(a[1].tickvals, 7)

(***************************************************************************)
(* C11 as stated: on every axis that carries a range, no tick lies outside *)
(* the range: min <= tick <= max for every tick of the axis.               *)
(***************************************************************************)
TicksWithin(axis) ==
    \A i \in DOMAIN axis.tickvals : Within(axis.tickvals[i], axis)

C11_TicksWithinRange ==
    /\ Built1 => \A a \in TimeValueAxes : TicksWithin(a)
    /\ Built2 => \A a \in PhaseAxes : TicksWithin(a[1])
    /\ Built3 => \A a \in PortraitAxes : TicksWithin(a[1])

(***************************************************************************)
(* C12: when both trajectories are constant and identical in a coordinate  *)
(* (unpadded min = max), every value axis of every view still has a tick,  *)
(* and every axis of the padded views (phase-plane, 3-D) has min < max.    *)
(***************************************************************************)
Degenerate(c) == SetMin(Samples(c)) = SetMax(Samples(c))

HasTick(axis) == Len(axis.tickvals) >= 1

C12_DegenerateBounds ==
    (\E c \in 1..3 : Degenerate(c)) =>
        /\ Built1 => \A a \in TimeValueAxes : HasTick(a)
        /\ Built2 => \A a \in PhaseAxes :
                        HasTick(a[1]) /\ a[1].range[1] < a[1].range[2]
        /\ Built3 => \A a \in PortraitAxes :
                        HasTick(a[1]) /\ a[1].range[1] < a[1].range[2]

\* both trajectories rest at one point: every coordinate is degenerate, and
\* so is the joint range of the time view
C12_Witness ==
    /\ Built3
    /\ NSamples >= 2
    /\ \A c \in 1..3 : Degenerate(c)
    /\ SetMin(AllSamples) = SetMax(AllSamples)
    /\ fig1.layout.yaxis.range[1] = fig1.layout.yaxis.range[2]
    /\ Len(fig1.layout.yaxis.tickvals) = 1
    /\ Len(fig2.layout.xaxis.tickvals) = 1

(***************************************************************************)
(* C19: plot_xyz has exactly 3 panels, showing the pairs (x,y), (x,z),     *)
(* (y,z); plot_time_versus_xyz has exactly 3 panels, showing x, y, z       *)
(* against time; each of the 6 panels holds exactly two series, one of     *)
(* solution_1 and one of solution_2.                                       *)
(***************************************************************************)
PanelPair(p) == IF p = 1 THEN <<1, 2>> ELSE IF p = 2 THEN <<1, 3>> ELSE <<2, 3>>

PanelTraces(fig, p) == { i \in DOMAIN fig.data : fig.data[i].col = p }

Panels(fig) == { fig.data[i].col : i \in DOMAIN fig.data }

\* panel p of fig holds two series: xs1 against ys1 of the first solution
\* and xs2 against ys2 of the second
PanelShows(fig, p, xs1, ys1, xs2, ys2) ==
    /\ Cardinality(PanelTraces(fig, p)) = 2
    /\ \E i, j \in PanelTraces(fig, p) :
          /\ i # j
          /\ fig.data[i].legendgroup = "group_1"
          /\ fig.data[i].x = xs1 /\ fig.data[i].y = ys1
          /\ fig.data[j].legendgroup = "group_2"
          /\ fig.data[j].x = xs2 /\ fig.data[j].y = ys2

C19_ViewSymmetry ==
    /\ Built1 =>
          /\ Panels(fig1) = 1..3
          /\ \A p \in 1..3 :
                PanelShows(fig1, p, timepoints, solution_1[p],
                                    timepoints, solution_2[p])
    /\ Built2 =>
          /\ Panels(fig2) = 1..3
          /\ \A p \in 1..3 :
                PanelShows(fig2, p,
                           solution_1[PanelPair(p)[1]], solution_1[PanelPair(p)[2]],
                           solution_2[PanelPair(p)[1]], solution_2[PanelPair(p)[2]])

\* the six coordinate rows differ pairwise, so a panel showing the wrong
\* coordinate or the wrong solution would be told apart
DistinctRows ==
    /\ \A c, d \in 1..3 : solution_1[c] # solution_2[d]
    /\ \A c, d \in 1..3 : c # d => /\ solution_1[c] # solution_1[d]
                                   /\ solution_2[c] # solution_2[d]

C19_Witness ==
    /\ Built2
    /\ NSamples >= 2
    /\ DistinctRows
    /\ Len(fig1.data) = 6
    /\ Len(fig2.data) = 6

(***************************************************************************)
(* C20: in all three figures the traces of solution_1 carry color_1 and    *)
(* those of solution_2 carry color_2, and in every frame the trace at      *)
(* position i has the colour of base trace i and shows a prefix of each    *)
(* coordinate sequence of base trace i.                                    *)
(***************************************************************************)
IsPrefix(s, t) ==
    /\ Len(s) <= Len(t)
    /\ \A i \in DOMAIN s : s[i] = t[i]

FrameFollowsBase2(fig) ==
    \A k \in DOMAIN fig.frames :
        /\ Len(fig.frames[k]) = Len(fig.data)
        /\ \A i \in DOMAIN fig.data :
              /\ fig.frames[k][i].color = fig.data[i].color
              /\ IsPrefix(fig.frames[k][i].x, fig.data[i].x)
              /\ IsPrefix(fig.frames[k][i].y, fig.data[i].y)

FrameFollowsBase3(fig) ==
    \A k \in DOMAIN fig.frames :
        /\ Len(fig.frames[k]) = Len(fig.data)
        /\ \A i \in DOMAIN fig.data :
              /\ fig.frames[k][i].color = fig.data[i].color
              /\ IsPrefix(fig.frames[k][i].x, fig.data[i].x)
              /\ IsPrefix(fig.frames[k][i].y, fig.data[i].y)
              /\ IsPrefix(fig.frames[k][i].z, fig.data[i].z)

\* the ordinate of a 2-D trace is a row of the first solution exactly when
\* the trace is in legend group 1 and blue
PathColors2(fig) ==
    \A i \in DOMAIN fig.data :
        \/ /\ fig.data[i].legendgroup = "group_1"
           /\ fig.data[i].color = blue_color
           /\ \E c \in 1..3 : fig.data[i].y = solution_1[c]
        \/ /\ fig.data[i].legendgroup = "group_2"
           /\ fig.data[i].color = orange_color
           /\ \E c \in 1..3 : fig.data[i].y = solution_2[c]

PathColors3(fig) ==
    /\ Len(fig.data) = 2
    /\ fig.data[1] = Scatter3d(solution_1[1], solution_1[2], solution_1[3], blue_color)
    /\ fig.data[2] = Scatter3d(solution_2[1], solution_2[2], solution_2[3], orange_color)

C20_TraceOrderAndColors ==
    /\ Built1 => PathColors2(fig1) /\ FrameFollowsBase2(fig1)
    /\ Built2 => PathColors2(fig2) /\ FrameFollowsBase2(fig2)
    /\ Built3 => PathColors3(fig3) /\ FrameFollowsBase3(fig3)

C20_Witness ==
    /\ Built3
    /\ DistinctRows
    /\ Len(fig1.frames) >= 2
    /\ Len(fig2.frames) >= 2
    /\ Len(fig3.frames) >= 2
    /\ Len(fig2.frames[1][1].x) < Len(fig2.data[1].x)

(***************************************************************************)
(* C13 as stated: every call of solve_lorenz_ode with tf <= t0 or with     *)
(* dt <= 0 raises and returns no trajectory.                               *)
(***************************************************************************)
InvalidGrid(args) == args.tf <= args.t0 \/ args.dt <= 0

C13_InvalidGridRaises ==
    \A i \in DOMAIN calls :
        InvalidGrid(calls[i].args) => calls[i].outcome.status = "raised"

C14_InvalidStrideRaises ==
    points_per_frame < 1 =>
        /\ pc = "called_plot_time_versus_xyz" => fig1.status = "raised"
        /\ pc = "called_plot_xyz" => fig2.status = "raised"
        /\ pc = "called_plot_3d" => fig3.status = "raised"

(***************************************************************************)
(* C15 as stated: a trajectory that solve_lorenz_ode has returned to       *)
(* update_plots, and that update_plots hands to the plot functions,        *)
(* contains no non-finite sample.                                          *)
(***************************************************************************)
C15_NonFiniteNeverReturned ==
    /\ solution_1 # None => AllFinite(solution_1)
    /\ solution_2 # None => AllFinite(solution_2)

(***************************************************************************)
(* C16 as stated: once update_plots holds both trajectories, the x, y and  *)
(* z sequences of both have the length of timepoints, for every outcome    *)
(* of the solver.                                                          *)
(***************************************************************************)
C16_SeriesAligned ==
    (entry = "update_plots" /\ pc \in {"fig1", "fig2", "fig3", "returned"}) =>
        \A c \in 1..3 : /\ Len(solution_1[c]) = Len(timepoints)
                        /\ Len(solution_2[c]) = Len(timepoints)

(***************************************************************************)
(* C18: the three figures a generate request returns are a function of     *)
(* that request's twelve input values: any two responses to equal inputs,  *)
(* from any sessions, after any earlier requests and under any             *)
(* interleaving with the other session's request, carry equal figures;     *)
(* and the closure values the requests read stay as main() set them.       *)
(***************************************************************************)
C18_FiguresFunctionOfInputs ==
    entry = "app" =>
        /\ \A r1, r2 \in served : r1.inputs = r2.inputs => r1.figures = r2.figures
        /\ grid = AppGrid
        /\ timepoints = np_arange(AppGrid.t0, AppGrid.tf, AppGrid.dt)

\* both sessions have been answered for the same inputs, a request with
\* other inputs has been answered too, and right now two requests with
\* different inputs are running, one plotting while the other is solving
C18_Witness ==
    /\ entry = "app"
    /\ \E r1, r2 \in served : r1.session # r2.session /\ r1.inputs = r2.inputs
    /\ \E r1, r2 \in served : r1.inputs # r2.inputs
    /\ req[1].pc = "fig2"
    /\ req[2].pc = "solve_2"
    /\ req[1].inputs # req[2].inputs

(***************************************************************************)
(* C21: when tf - t0 is an exact multiple of dt, the trajectory has        *)
(* exactly (tf - t0)/dt samples; the first sample time is t0, the last is  *)
(* tf - dt, and tf itself is not a sample time.                            *)
(***************************************************************************)
ExactMultiple == (grid.tf - grid.t0) % grid.dt = 0

C21_ExactMultipleLength ==
    (entry = "solve_lorenz_ode" /\ pc # "solve_1" /\ ExactMultiple) =>
        LET n == (grid.tf - grid.t0) \div grid.dt
        IN  /\ Len(timepoints) = n
            /\ \A c \in 1..3 : Len(solution_1[c]) = n
            /\ pc = "solved" => \A c \in 1..3 : Len(solution_2[c]) = n
            /\ timepoints[1] = grid.t0
            /\ timepoints[n] = grid.tf - grid.dt
            /\ grid.tf \notin Values(timepoints)

C21_Witness ==
    /\ entry = "solve_lorenz_ode"
    /\ pc = "solved"
    /\ ExactMultiple
    /\ grid.t0 # 0
    /\ Len(timepoints) >= 3
    /\ Len(solution_2[3]) = Len(timepoints)

(***************************************************************************)
(* C22 as stated: for every coordinate, plot_3d pads the axis range by     *)
(* more than plot_xyz does (its range starts lower and ends higher), and   *)
(* steps its ticks by more.                                                *)
(***************************************************************************)
Axis2(c) == IF c = 1 THEN fig2.layout.xaxis
            ELSE IF c = 2 THEN fig2.layout.yaxis ELSE fig2.layout.yaxis2

Axis3(c) == IF c = 1 THEN fig3.layout.xaxis
            ELSE IF c = 2 THEN fig3.layout.yaxis ELSE fig3.layout.zaxis

\* the padding an axis of coordinate c applies below and above the samples
PaddingBelow(axis, c) == SetMin(Samples(c)) - axis.range[1]
PaddingAbove(axis, c) == axis.range[2] - SetMax(Samples(c))

\* the ticks are those of stepping by spacing from the range's start, each
\* truncated to an integer, up to but excluding the range's end
SteppedBy(axis, spacing) ==
    /\ \A i \in DOMAIN axis.tickvals :
          axis.tickvals[i] = Trunc(axis.range[1] + (i - 1) * spacing * SCALE)
    /\ axis.range[1] + (Len(axis.tickvals) - 1) * spacing * SCALE < axis.range[2]
    /\ axis.range[1] + Len(axis.tickvals) * spacing * SCALE >= axis.range[2]

C22_Original ==
    Built3 =>
        \A c \in 1..3 :
            /\ PaddingBelow(Axis3(c), c) > PaddingBelow(Axis2(c), c)
            /\ PaddingAbove(Axis3(c), c) > PaddingAbove(Axis2(c), c)
            /\ portrait_tick_spacing > xyz_tick_spacing

(***************************************************************************)
(* C22 amended: for every coordinate, plot_3d and plot_xyz pad the axis    *)
(* range by the same amount, 2 on each side, so the two ranges are equal;  *)
(* only the tick spacing is larger in plot_3d (7 against 5), so the 3-D    *)
(* axis never has more ticks than the phase-plane axis.                    *)
(***************************************************************************)
C22_SamePaddingLargerSpacing ==
    Built3 =>
        \A c \in 1..3 :
            /\ PaddingBelow(Axis2(c), c) = value_padding * SCALE
            /\ PaddingAbove(Axis2(c), c) = value_padding * SCALE
            /\ PaddingBelow(Axis3(c), c) = value_padding * SCALE
            /\ PaddingAbove(Axis3(c), c) = value_padding * SCALE
            /\ Axis3(c).range = Axis2(c).range
            /\ SteppedBy(Axis2(c), xyz_tick_spacing)
            /\ SteppedBy(Axis3(c), portrait_tick_spacing)
            /\ portrait_tick_spacing > xyz_tick_spacing
            /\ Len(Axis3(c).tickvals) <= Len(Axis2(c).tickvals)

\* an axis long enough for the two spacings to give different tick lists
C22_Witness ==
    /\ Built3
    /\ \E c \in 1..3 :
          /\ Len(Axis3(c).tickvals) >= 2
          /\ Len(Axis2(c).tickvals) > Len(Axis3(c).tickvals)
          /\ Axis3(c).tickvals[2] # Axis2(c).tickvals[2]

(***************************************************************************)
(* C23: with the default strides the application uses, every animation     *)
(* step of the time view reveals strictly more new samples than a step of  *)
(* the phase-plane view and than a step of the 3-D view, and the time view *)
(* has no more frames than either of them.                                 *)
(***************************************************************************)
DefaultsBuilt == entry = "default_strides" /\ pc = "plotted"

\* the numbers of samples by which one frame of fig exceeds the frame before
RevealSteps(fig) ==
    { Revealed(fig.frames[k + 1]) - Revealed(fig.frames[k]) :
        k \in 1..(Len(fig.frames) - 1) }

C23_TimeViewCoarser ==
    DefaultsBuilt =>
        /\ \A a \in RevealSteps(fig1) : \A b \in RevealSteps(fig2) \cup RevealSteps(fig3) :
              a > b
        /\ RevealSteps(fig1) \subseteq {default_points_per_frame_time}
        /\ RevealSteps(fig2) \subseteq {default_points_per_frame_xyz}
        /\ RevealSteps(fig3) \subseteq {default_points_per_frame_3d}
        /\ default_points_per_frame_time > default_points_per_frame_xyz
        /\ default_points_per_frame_time > default_points_per_frame_3d
        /\ Len(fig1.frames) <= Len(fig2.frames)
        /\ Len(fig1.frames) <= Len(fig3.frames)

\* enough samples for every view to take more than one step
C23_Witness ==
    /\ DefaultsBuilt
    /\ Len(fig1.frames) >= 2
    /\ Len(fig2.frames) > Len(fig1.frames)
    /\ Len(fig3.frames) > Len(fig2.frames)

(***************************************************************************)
(* C28: reset_values returns the twelve start-up defaults (initial states  *)
(* [0,1,0] and [1,0,1], sigma 10, rho 28, beta 2.3 for both paths)         *)
(* whenever n_clicks > 0, whatever the current values are; it returns the  *)
(* twelve current values, each to its own field, when n_clicks is 0; and   *)
(* a second Reset click returns what the first one returned.               *)
(***************************************************************************)
StartUpDefaults ==
    [x0_1 |-> 0, y0_1 |-> SCALE, z0_1 |-> 0,
     x0_2 |-> SCALE, y0_2 |-> 0, z0_2 |-> SCALE,
     sigma_1 |-> 10 * SCALE, rho_1 |-> 28 * SCALE, beta_1 |-> (23 * SCALE) \div 10,
     sigma_2 |-> 10 * SCALE, rho_2 |-> 28 * SCALE, beta_2 |-> (23 * SCALE) \div 10]

C28_ResetValues ==
    /\ (entry = "reset_values" /\ pc = "returned") =>
          inputs = (IF page.n_clicks > 0 THEN StartUpDefaults ELSE page.values)
    /\ (entry = "reset_values" /\ pc = "returned_again") =>
          /\ inputs = StartUpDefaults
          /\ page.n_clicks >= 2 => inputs = page.values

\* a click that met twelve values all different from the defaults
C28_Witness ==
    /\ entry = "reset_values"
    /\ pc = "returned"
    /\ page.n_clicks > 0
    /\ \A i \in 1..6 : page.values[InputIds[i]] # StartUpDefaults[InputIds[i]]
    /\ page.values.sigma_1 # StartUpDefaults.sigma_1
    /\ page.values.beta_2 # StartUpDefaults.beta_2
    /\ inputs = StartUpDefaults

(***************************************************************************)
(* C24: within one run of update_plots both integrations are done before   *)
(* any figure is built, the figures are built in the order time view,      *)
(* phase-plane view, 3-D view, and the page is handed all three at once:   *)
(* the three figures the page shows are always built from the same two     *)
(* trajectories.                                                           *)
(***************************************************************************)
IsSet(x) == x # None

\* the three figures show the same first trajectory and the same second one
Coherent(figures) ==
    /\ figures[1].data[1].y = figures[2].data[1].x
    /\ figures[1].data[1].y = figures[3].data[1].x
    /\ figures[1].data[3].y = figures[2].data[1].y
    /\ figures[1].data[3].y = figures[3].data[1].y
    /\ figures[1].data[5].y = figures[3].data[1].z
    /\ figures[1].data[2].y = figures[2].data[2].x
    /\ figures[1].data[2].y = figures[3].data[2].x
    /\ figures[1].data[4].y = figures[3].data[2].y
    /\ figures[1].data[6].y = figures[3].data[2].z

C24_AllOrNothing ==
    entry = "page" =>
        LET r == req[PageSession]
        IN  /\ IsSet(r.solution_2) => IsSet(r.solution_1)
            /\ IsSet(r.fig1) => IsSet(r.solution_1) /\ IsSet(r.solution_2)
            /\ IsSet(r.fig2) => IsSet(r.fig1)
            /\ IsSet(r.fig3) => IsSet(r.fig2)
            /\ r.pc = "return" <=> IsSet(r.fig3)
            /\ Coherent(page.figures)

\* a run for new inputs has built its three figures and is about to return
\* them, while the page still shows the three of the old inputs
C24_Witness ==
    /\ entry = "page"
    /\ req[PageSession].pc = "return"
    /\ req[PageSession].inputs # default_values
    /\ page.figures = <<fig1, fig2, fig3>>
    /\ req[PageSession].fig1 # page.figures[1]
    /\ req[PageSession].fig2 # page.figures[2]
    /\ req[PageSession].fig3 # page.figures[3]

(***************************************************************************)
(* C27: over any sequence of edits, Reset clicks and Generate runs, a      *)
(* Reset click changes only the twelve input values (to the defaults) and  *)
(* never the shown figures; the shown figures change only when             *)
(* update_plots returns; update_plots works on the input values of the     *)
(* moment it starts; and a run on the defaults, as after Reset followed by *)
(* Generate, shows again the figures built at start-up.                    *)
(***************************************************************************)
ResetStep == page'.n_clicks # page.n_clicks

C27_Step ==
    entry = "page" =>
        LET r == req[PageSession]
        IN  /\ ResetStep => /\ page'.figures = page.figures
                            /\ page'.values = default_values
                            /\ req' = req
            /\ page'.figures # page.figures => /\ r.pc = "return"
                                               /\ page'.figures = response(r)
                                               /\ page'.values = page.values
            /\ (r.pc = "idle" /\ req'[PageSession].pc # "idle") =>
                   req'[PageSession].inputs = page.values
            /\ (r.pc = "return" /\ r.inputs = default_values
                    /\ req'[PageSession].pc = "idle") =>
                   page'.figures = <<fig1, fig2, fig3>>

C27_ResetThenGenerate == [][C27_Step]_vars

\* the page shows figures of other inputs, Reset has put the defaults back
\* and the Generate run on them is about to return the start-up figures
C27_Witness ==
    /\ entry = "page"
    /\ page.n_clicks >= 1
    /\ page.values = default_values
    /\ page.figures # <<fig1, fig2, fig3>>
    /\ req[PageSession].pc = "return"
    /\ req[PageSession].inputs = default_values
    /\ response(req[PageSession]) = <<fig1, fig2, fig3>>

(***************************************************************************)
(* C26 as stated: in every frame of every view that update_plots builds,   *)
(* all traces of the frame (both paths, all panels, in the time view the   *)
(* time axis too) are cut to one prefix length p with 2 <= p <= N, N the   *)
(* number of sample times; no frame shows more samples of one path than of *)
(* the other.                                                              *)
(***************************************************************************)
OnePrefix2(fig) ==
    \A k \in DOMAIN fig.frames :
        \E p \in 2..Len(timepoints) : Reveals2(fig.frames[k], p)

OnePrefix3(fig) ==
    \A k \in DOMAIN fig.frames :
        \E p \in 2..Len(timepoints) : Reveals3(fig.frames[k], p)

C26_FramesOnePrefix ==
    entry = "update_plots" =>
        /\ pc \in {"fig2", "fig3", "returned"} => OnePrefix2(fig1)
        /\ pc \in {"fig3", "returned"} => OnePrefix2(fig2)
        /\ pc = "returned" => OnePrefix3(fig3)

(***************************************************************************)
(* C29 as stated: for every time grid with at least one sample the time    *)
(* axis of each panel of the time view has a tick list that is not empty,  *)
(* starts at the first sample time, steps by 5 and stays within the first  *)
(* and the last sample time.                                               *)
(***************************************************************************)
TimeAxes == <<fig1.layout.xaxis, fig1.layout.xaxis2, fig1.layout.xaxis3>>

TimeTicksFromFirstSample(ticks) ==
    /\ Len(ticks) >= 1
    /\ ticks[1] = timepoints[1]
    /\ \A i \in 1..(Len(ticks) - 1) : ticks[i + 1] - ticks[i] = time_tick_spacing * SCALE
    /\ \A i \in DOMAIN ticks :
           timepoints[1] <= ticks[i] /\ ticks[i] <= timepoints[Len(timepoints)]

C29_TimeAxisTicks ==
    (Built1 /\ Len(timepoints) >= 1) =>
        \A a \in DOMAIN TimeAxes : TimeTicksFromFirstSample(TimeAxes[a].tickvals)

(***************************************************************************)
(* C30: src/main.py and src/scripts/main.py are equivalent in geometry.    *)
(* For the same twelve inputs and the same time grid they produce the same *)
(* sample times, the same series per panel, the same axis ranges and tick  *)
(* lists and the same frame prefix lengths in all three views, and their   *)
(* reset_values return the same values.                                    *)
(***************************************************************************)
Series2(fig) == [j \in DOMAIN fig.data |-> <<fig.data[j].col, fig.data[j].x, fig.data[j].y>>]

Series3(fig) == [j \in DOMAIN fig.data |-> <<fig.data[j].x, fig.data[j].y, fig.data[j].z>>]

PrefixLengths2(fig) ==
    [k \in DOMAIN fig.frames |->
        [j \in DOMAIN fig.frames[k] |->
            <<Len(fig.frames[k][j].x), Len(fig.frames[k][j].y)>>]]

PrefixLengths3(fig) ==
    [k \in DOMAIN fig.frames |->
        [j \in DOMAIN fig.frames[k] |->
            <<Len(fig.frames[k][j].x), Len(fig.frames[k][j].y), Len(fig.frames[k][j].z)>>]]

SameGeometry2(f, g) ==
    /\ Series2(f) = Series2(g)
    /\ f.layout = g.layout
    /\ PrefixLengths2(f) = PrefixLengths2(g)

SameGeometry3(f, g) ==
    /\ Series3(f) = Series3(g)
    /\ f.layout = g.layout
    /\ PrefixLengths3(f) = PrefixLengths3(g)

C30_VariantsSameGeometry ==
    /\ (entry = "variants" /\ pc \in {"scripts_plotted", "both_done"}) =>
          /\ page.scripts.timepoints = timepoints
          /\ SameGeometry2(fig1, page.scripts.fig1)
          /\ SameGeometry2(fig2, page.scripts.fig2)
          /\ SameGeometry3(fig3, page.scripts.fig3)
    /\ (entry = "variants" /\ pc = "both_done") =>
          page.scripts.values = page.values

\* both variants have run on a grid long enough for several frames in each
\* view, the Reset click met non-default values, and the styles differ
C30_Witness ==
    /\ entry = "variants"
    /\ pc = "both_done"
    /\ Len(timepoints) > default_points_per_frame_time + 1
    /\ Len(page.scripts.fig1.frames) >= 2
    /\ Len(page.scripts.fig3.frames) >= 4
    /\ page.n_clicks > 0
    /\ inputs # default_values
    /\ page.scripts.values = StateArgs(default_values)
    /\ page.scripts.style # page.style

====
